---------------------------- MODULE Spec2Model ----------------------------
(***************************************************************************)
(* Translation of a Tuple Relational Calculus (TRC) AST into a relational  *)
(* algebra (RA) operator tree, relalgFromTRCAstRoot of                     *)
(* src/db/translate/relalgFromAst.ts, together with the evaluation of the  *)
(* produced tree against a catalog of in-memory relations.                 *)
(***************************************************************************)
EXTENDS Integers, Sequences, FiniteSets, TLC

VARIABLES
    relations,   \* the catalog: relation name -> relation (schema and rows)
    astRoot,     \* the TRC AST handed to relalgFromTRCAstRoot
    references,  \* the map tuple variable -> relation name of the call
    root,        \* the value the call returned: an RA tree, or the exception thrown
    result,      \* root.check() and root.getResult() of the returned tree
    pc           \* "start" -> "translated" -> "evaluated"

vars == <<relations, astRoot, references, root, result, pc>>

-----------------------------------------------------------------------------
(* Bounds *)

\* column values range over 0 .. MaxVal
MaxVal == 1
\* a catalog relation holds at most MaxRows rows
MaxRows == 2
\* a comparison is wrapped in at most MaxNeg nested Negation nodes
MaxNeg == 3
\* a LIMIT and an OFFSET are at most MaxLimit
MaxLimit == 3

Values == 0 .. MaxVal

\* JavaScript's null / undefined, as far as the translator tells them apart from a name
NULL == "null"

-----------------------------------------------------------------------------
(* The catalog: the fixture relations of the translator's tests, R and S   *)
(* sharing the column name b.                                              *)

Column(name, relAlias, type) == [name |-> name, relAlias |-> relAlias, type |-> type]

SchemaOf(name) ==
    IF name = "R"
    THEN << Column("a", "R", "number"), Column("b", "R", "string") >>
    ELSE << Column("b", "S", "string"), Column("d", "S", "number") >>

RelationNames == {"R", "S"}

RowsOf(name) == { <<x, y>> : x \in Values, y \in Values }

Tables(name) == { rows \in SUBSET RowsOf(name) : Cardinality(rows) <= MaxRows }

\* the identity of a catalog relation's object: the objects are numbered, the
\* catalog's first
CatalogObject(name) == IF name = "R" THEN 1 ELSE 2

Relation(name, rows) ==
    [name |-> name, schema |-> SchemaOf(name), rows |-> rows,
     object |-> CatalogObject(name)]

\* Relation.copy(): a new object, a relation node with the same schema and rows
copy(rel, object) ==
    [op |-> "Relation", name |-> rel.name, schema |-> rel.schema, rows |-> rel.rows,
     object |-> object]

-----------------------------------------------------------------------------
(* The TRC AST node shapes *)

TRC_Expr(variable, projections, formula) ==
    [type |-> "TRC_Expr", variable |-> variable, projections |-> projections,
     formula |-> formula]

RelationPredicate(variable, relation) ==
    [type |-> "RelationPredicate", variable |-> variable, relation |-> relation]

AttributeReference(variable, attribute) ==
    [type |-> "AttributeReference", variable |-> variable, attribute |-> attribute]

\* a literal right-hand side; datatype is JavaScript's typeof of the literal
Literal(value, datatype) ==
    [type |-> "Literal", value |-> value, datatype |-> datatype]

Predicate(left, operator, right) ==
    [type |-> "Predicate", left |-> left, operator |-> operator, right |-> right]

Negation(formula) == [type |-> "Negation", formula |-> formula]

QuantifiedExpression(quantifier, variable, formula) ==
    [type |-> "QuantifiedExpression", quantifier |-> quantifier,
     variable |-> variable, formula |-> formula]

LogicalExpression(left, operator, right) ==
    [type |-> "LogicalExpression", left |-> left, operator |-> operator,
     right |-> right]

Operators == {"=", "!=", "<", ">", "<=", ">="}

Has(node, field) == field \in DOMAIN node

-----------------------------------------------------------------------------
(* RA nodes and value expressions built by the translator *)

Throw(error) == [op |-> "Throw", error |-> error]

IsThrow(node) == node.op = "Throw"

Projection(child, cols) == [op |-> "Projection", child |-> child, cols |-> cols]

Selection(child, condition) ==
    [op |-> "Selection", child |-> child, condition |-> condition]

Union(child, child2) == [op |-> "Union", child |-> child, child2 |-> child2]

SemiJoin(child, child2, isLeft) ==
    [op |-> "SemiJoin", child |-> child, child2 |-> child2, isLeft |-> isLeft]

AntiJoin(child, child2, condition) ==
    [op |-> "AntiJoin", child |-> child, child2 |-> child2, condition |-> condition]

InnerJoin(child, child2, condition) ==
    [op |-> "InnerJoin", child |-> child, child2 |-> child2, condition |-> condition]

CrossJoin(child, child2) == [op |-> "CrossJoin", child |-> child, child2 |-> child2]

GroupBy(child, groupCols, aggregate) ==
    [op |-> "GroupBy", child |-> child, groupCols |-> groupCols,
     aggregate |-> aggregate]

NaturalCondition == [type |-> "natural", restrictToColumns |-> NULL]

ThetaCondition(expr) == [type |-> "theta", joinExpression |-> expr]


ValueExprColumnValue(name, relAlias) ==
    [kind |-> "ColumnValue", name |-> name, relAlias |-> relAlias]

ValueExprGeneric(datatype, func, args) ==
    [kind |-> "Generic", datatype |-> datatype, func |-> func, args |-> args]

-----------------------------------------------------------------------------
(* relalgFromTRCAstRoot: the helpers closed over `references` and `relations` *)

(* What a call reads and leaves behind is carried as refs: the map           *)
(* `references`, the number of Relation objects that exist, and the         *)
(* assignments made to fields of AST nodes (`written`: the node as it was,  *)
(* paired with the node as it is left).                                     *)

\* references.get: undefined (NULL) for a key never set
MapGet(refs, key) ==
    IF key \in DOMAIN refs.references THEN refs.references[key] ELSE NULL

\* references.set
MapSet(refs, key, value) ==
    [refs EXCEPT !.references =
        [k \in DOMAIN refs.references \cup {key} |->
            IF k = key THEN value ELSE refs.references[k]]]

EmptyMap == [k \in {} |-> NULL]

\* on entry: new Map(), and the catalog's relations the only Relation objects
OnEntry ==
    [references |-> EmptyMap, objects |-> Cardinality(RelationNames), written |-> {}]

\* one more Relation object exists
Allocated(refs) == [refs EXCEPT !.objects = @ + 1]

\* the catalog relation itself in place of a copy of it
CatalogShared(name, refs) ==
    IF name \in DOMAIN relations
    THEN copy(relations[name], relations[name].object)
    ELSE Throw("TypeError")

\* relations[name].copy(): a TypeError when the catalog has no such relation
CatalogCopy(name, refs) ==
    IF name \in DOMAIN relations
    THEN copy(relations[name], refs.objects + 1)
    ELSE Throw("TypeError")

\* typeof predicate.right == 'object'
IsObject(x) == x.type # "Literal"

\* convertPredicate with the two operands exchanged
convertPredicateSwapped(predicate, refs) ==
    LET leftArg == [type |-> "valueExpr", datatype |-> "null", func |-> "columnValue",
                    args |-> << predicate.left.attribute,
                                MapGet(refs, predicate.left.variable) >>,
                    codeInfo |-> NULL]
        isObj == IsObject(predicate.right)
        rightArg == [type |-> "valueExpr",
                     datatype |-> IF isObj THEN "null" ELSE predicate.right.datatype,
                     func |-> IF isObj THEN "columnValue" ELSE "constant",
                     args |-> << IF isObj THEN predicate.right.attribute
                                          ELSE predicate.right.value,
                                 IF isObj THEN MapGet(refs, predicate.right.variable)
                                          ELSE NULL >>,
                     codeInfo |-> NULL]
    IN  [type |-> "valueExpr", datatype |-> "boolean", func |-> predicate.operator,
         args |-> << rightArg, leftArg >>, codeInfo |-> NULL]

convertPredicate(predicate, refs) ==
    LET leftRelationName == MapGet(refs, predicate.left.variable)
        leftArg == [type |-> "valueExpr", datatype |-> "null", func |-> "columnValue",
                    args |-> << predicate.left.attribute, leftRelationName >>,
                    codeInfo |-> NULL]
        isObj == IsObject(predicate.right)
        func == IF isObj THEN "columnValue" ELSE "constant"
        arg == IF isObj THEN predicate.right.attribute ELSE predicate.right.value
        datatype == IF isObj THEN "null" ELSE predicate.right.datatype
        rightRelationName == IF isObj THEN MapGet(refs, predicate.right.variable) ELSE NULL
        rightArg == [type |-> "valueExpr", datatype |-> datatype, func |-> func,
                     args |-> << arg, rightRelationName >>, codeInfo |-> NULL]
    IN  [type |-> "valueExpr", datatype |-> "boolean", func |-> predicate.operator,
         args |-> << leftArg, rightArg >>, codeInfo |-> NULL]

RECURSIVE recValueExpr(_)
recValueExpr(n) ==
    IF n.datatype = "null" /\ n.func = "columnValue"
    THEN ValueExprColumnValue(n.args[1], n.args[2])
    ELSE ValueExprGeneric(n.datatype, n.func,
            IF n.func = "constant"
            THEN n.args
            ELSE [i \in 1 .. Len(n.args) |-> recValueExpr(n.args[i])])

RECURSIVE setupReferences(_, _)
setupReferences(node, refs) ==
    CASE node.type = "TRC_Expr" -> setupReferences(node.formula, refs)
      [] node.type = "RelationPredicate" -> MapSet(refs, node.variable, node.relation)
      [] node.type = "Negation" -> setupReferences(node.formula, refs)
      [] node.type = "QuantifiedExpression" -> setupReferences(node.formula, refs)
      [] node.type = "LogicalExpression" ->
            setupReferences(node.right, setupReferences(node.left, refs))
      [] OTHER -> refs

RECURSIVE getFirstRelation(_)
getFirstRelation(node) ==
    CASE node.type = "TRC_Expr" -> getFirstRelation(node.formula)
      [] node.type = "RelationPredicate" -> node.relation
      [] node.type = "LogicalExpression" -> getFirstRelation(node.left)
      [] OTHER -> NULL

\* notOperator with both strict comparisons and both non-strict ones sent to
\* the non-strict comparison of the other direction
notOperatorWeak(op) ==
    CASE op = "=" -> "!="
      [] op = "!=" -> "="
      [] op = "<" -> ">="
      [] op = ">" -> "<="
      [] op = "<=" -> ">="
      [] op = ">=" -> "<="
      [] OTHER -> NULL

\* notOperator with the order comparisons mirrored instead of complemented
notOperatorMirrored(op) ==
    CASE op = "=" -> "!="
      [] op = "!=" -> "="
      [] op = "<" -> ">"
      [] op = ">" -> "<"
      [] op = "<=" -> ">="
      [] op = ">=" -> "<="
      [] OTHER -> NULL

notOperator(op) ==
    CASE op = "=" -> "!="
      [] op = "!=" -> "="
      [] op = "<" -> ">="
      [] op = ">" -> "<="
      [] op = "<=" -> ">"
      [] op = ">=" -> "<"
      [] OTHER -> NULL

RECURSIVE usesVariableInPredicate(_, _)
usesVariableInPredicate(node, variable) ==
    CASE node.type = "LogicalExpression" ->
            LET left == usesVariableInPredicate(node.left, variable)
                right == usesVariableInPredicate(node.right, variable)
            IN  left \/ right
      [] node.type = "Predicate" ->
            \/ node.left.variable = variable
            \/ (IsObject(node.right) /\ node.right.variable = variable)
      [] node.type = "Negation" -> usesVariableInPredicate(node.formula, variable)
      [] node.type = "QuantifiedExpression" ->
            usesVariableInPredicate(node.formula, variable)
      [] OTHER -> FALSE

-----------------------------------------------------------------------------
(* rec: the recursive lowering.  It returns the RA node (or the exception   *)
(* thrown) together with `references` as the call left it.                  *)

Ret(node, refs) == [node |-> node, refs |-> refs]

\* the `cond` of the correlated exists branch; "TypeError" when reading
\* predicate.right.type or predicate.left.type dereferences undefined
AntiJoinCond(formula, negated) ==
    IF ~negated THEN "false"
    ELSE IF ~Has(formula, "right") THEN "false"
    ELSE LET predicate == formula.right IN
         IF predicate.type = "Literal"
         THEN (IF predicate.datatype = "number" /\ predicate.value = 0
               THEN "false" ELSE "TypeError")
         ELSE IF ~Has(predicate, "right") THEN "TypeError"
         ELSE IF predicate.right.type # "AttributeReference" THEN "false"
         ELSE IF predicate.left.type # "AttributeReference" THEN "false"
         ELSE IF predicate.operator = "=" THEN "true" ELSE "false"

\* the COUNT_ALL aggregate and the comparison on it of the uncorrelated exists branch
CountAggregate == << [aggFunction |-> "COUNT_ALL", col |-> NULL, name |-> "count"] >>

\* CountCondition with the two operators exchanged
CountConditionExchanged(negated) ==
    Predicate(AttributeReference(NULL, "count"),
              IF negated THEN ">" ELSE "=",
              Literal(0, "number"))

CountCondition(negated) ==
    Predicate(AttributeReference(NULL, "count"),
              IF negated THEN "=" ELSE ">",
              Literal(0, "number"))

RECURSIVE rec(_, _, _, _)

\* case 'TRC_Expr'
recTRC_Expr(nRaw, tupleVariable, negated, refs) ==
    LET r == rec(nRaw.formula, nRaw.variable, FALSE, refs) IN
    IF Len(nRaw.projections) # 0
    THEN LET relationName == getFirstRelation(nRaw)
             projectedCols == [i \in 1 .. Len(nRaw.projections) |->
                                  Column(nRaw.projections[i], relationName, NULL)]
         IN  IF IsThrow(r.node) THEN r
             ELSE Ret(Projection(r.node, projectedCols), r.refs)
    ELSE r

\* recLogicalExpression with the conjunction's semi-join keeping the rows of
\* its right child
recLogicalExpressionRightRows(nRaw, tupleVariable, negated, refs) ==
    IF nRaw.operator = "implies"
    THEN LET notLeft == Negation(nRaw.left) IN
         IF nRaw.left.type = "RelationPredicate"
         THEN rec(nRaw.right, tupleVariable, negated, refs)
         ELSE LET right == rec(nRaw.right, tupleVariable, FALSE, refs) IN
              IF IsThrow(right.node) THEN right
              ELSE LET left == rec(notLeft, tupleVariable, negated, right.refs) IN
                   IF IsThrow(left.node) THEN left
                   ELSE Ret(Union(left.node, right.node), left.refs)
    ELSE LET left == rec(nRaw.left, tupleVariable, negated, refs) IN
         IF IsThrow(left.node) THEN left
         ELSE LET right == rec(nRaw.right, tupleVariable, negated, left.refs) IN
              IF IsThrow(right.node) THEN right
              ELSE IF nRaw.operator = "or"
                   THEN Ret(Union(left.node, right.node), right.refs)
                   ELSE Ret(SemiJoin(left.node, right.node, FALSE), right.refs)

\* recLogicalExpression with the implication's left side left un-negated
recLogicalExpressionPlainLeft(nRaw, tupleVariable, negated, refs) ==
    IF nRaw.operator = "implies"
    THEN IF nRaw.left.type = "RelationPredicate"
         THEN rec(nRaw.right, tupleVariable, negated, refs)
         ELSE LET right == rec(nRaw.right, tupleVariable, FALSE, refs) IN
              IF IsThrow(right.node) THEN right
              ELSE LET left == rec(nRaw.left, tupleVariable, negated, right.refs) IN
                   IF IsThrow(left.node) THEN left
                   ELSE Ret(Union(left.node, right.node), left.refs)
    ELSE LET left == rec(nRaw.left, tupleVariable, negated, refs) IN
         IF IsThrow(left.node) THEN left
         ELSE LET right == rec(nRaw.right, tupleVariable, negated, left.refs) IN
              IF IsThrow(right.node) THEN right
              ELSE IF nRaw.operator = "or"
                   THEN Ret(Union(left.node, right.node), right.refs)
                   ELSE Ret(SemiJoin(left.node, right.node, TRUE), right.refs)

\* case 'LogicalExpression'
recLogicalExpression(nRaw, tupleVariable, negated, refs) ==
    IF nRaw.operator = "implies"
    THEN LET notLeft == Negation(nRaw.left) IN
         IF nRaw.left.type = "RelationPredicate"
         THEN rec(nRaw.right, tupleVariable, negated, refs)
         ELSE LET right == rec(nRaw.right, tupleVariable, FALSE, refs) IN
              IF IsThrow(right.node) THEN right
              ELSE LET left == rec(notLeft, tupleVariable, negated, right.refs) IN
                   IF IsThrow(left.node) THEN left
                   ELSE Ret(Union(left.node, right.node), left.refs)
    ELSE LET left == rec(nRaw.left, tupleVariable, negated, refs) IN
         IF IsThrow(left.node) THEN left
         ELSE LET right == rec(nRaw.right, tupleVariable, negated, left.refs) IN
              IF IsThrow(right.node) THEN right
              ELSE IF nRaw.operator = "or"
                   THEN Ret(Union(left.node, right.node), right.refs)
                   ELSE Ret(SemiJoin(left.node, right.node, TRUE), right.refs)

\* case 'QuantifiedExpression', quantifier 'exists', the quantified formula
\* uses the tuple variable
recExistsCorrelated(nRaw, tupleVariable, negated, refs) ==
    LET right == rec(nRaw.formula, nRaw.variable, negated, refs)
        cond == AntiJoinCond(nRaw.formula, negated)
    IN  IF IsThrow(right.node) THEN right
        ELSE IF cond = "TypeError" THEN Ret(Throw("TypeError"), right.refs)
        ELSE IF cond = "true"
        THEN LET tupleVariableRelationName == MapGet(right.refs, tupleVariable)
                 tupleVariableRelation ==
                     CatalogCopy(tupleVariableRelationName, right.refs)
             IN  IF tupleVariableRelationName = NULL
                 THEN Ret(Throw("Error"), right.refs)
                 ELSE IF IsThrow(tupleVariableRelation)
                 THEN Ret(tupleVariableRelation, right.refs)
                 ELSE Ret(AntiJoin(tupleVariableRelation, right.node, NaturalCondition),
                          Allocated(right.refs))
        ELSE right

\* case 'QuantifiedExpression', quantifier 'exists', the quantified formula
\* does not use the tuple variable: sigma count > 0 (tupleRel x gamma count(*))
recExistsCount(resultFormula, tupleVariable, negated, refs) ==
    LET count == GroupBy(resultFormula, << >>, CountAggregate)
        tupleVariableRelationName == MapGet(refs, tupleVariable)
        tupleVariableRelation == CatalogCopy(tupleVariableRelationName, refs)
    IN  IF tupleVariableRelationName = NULL THEN Ret(Throw("Error"), refs)
        ELSE IF IsThrow(tupleVariableRelation) THEN Ret(tupleVariableRelation, refs)
        ELSE Ret(Selection(CrossJoin(tupleVariableRelation, count),
                     recValueExpr(convertPredicate(CountCondition(negated), refs))),
                 Allocated(refs))

\* recForAll with the pending negation handed on unchanged
recForAllSameFlag(nRaw, tupleVariable, negated, refs) ==
    LET notFormula == IF usesVariableInPredicate(nRaw, tupleVariable)
                      THEN nRaw.formula
                      ELSE Negation(nRaw.formula)
        notExists == [nRaw EXCEPT !.quantifier = "exists", !.formula = notFormula]
    IN  rec(notExists, tupleVariable, negated, refs)

\* case 'QuantifiedExpression', quantifier 'forAll'
recForAll(nRaw, tupleVariable, negated, refs) ==
    LET notFormula == IF usesVariableInPredicate(nRaw, tupleVariable)
                      THEN nRaw.formula
                      ELSE Negation(nRaw.formula)
        notExists == [nRaw EXCEPT !.quantifier = "exists", !.formula = notFormula]
        uses == usesVariableInPredicate(nRaw.formula, tupleVariable)
        shouldBeNegated == IF negated THEN uses ELSE ~uses
    IN  rec(notExists, tupleVariable, shouldBeNegated, refs)

\* case 'QuantifiedExpression'
recQuantifiedExpression(nRaw, tupleVariable, negated, refs) ==
    LET resultFormula == rec(nRaw.formula, nRaw.variable, FALSE, refs) IN
    IF IsThrow(resultFormula.node) THEN resultFormula
    ELSE IF nRaw.quantifier = "exists"
    THEN IF usesVariableInPredicate(nRaw.formula, tupleVariable)
         THEN recExistsCorrelated(nRaw, tupleVariable, negated, resultFormula.refs)
         ELSE recExistsCount(resultFormula.node, tupleVariable, negated,
                             resultFormula.refs)
    ELSE recForAll(nRaw, tupleVariable, negated, resultFormula.refs)

\* case 'RelationPredicate'
recRelationPredicate(nRaw, tupleVariable, negated, refs) ==
    LET set == MapSet(refs, nRaw.variable, nRaw.relation)
        relation == CatalogCopy(nRaw.relation, set)
    IN  IF IsThrow(relation) THEN Ret(relation, set) ELSE Ret(relation, Allocated(set))

\* recNegationLogical with the connective of a negated conjunction or
\* disjunction kept instead of exchanged
recNegationLogicalSameConnective(nRaw, tupleVariable, negated, refs) ==
    LET notLeft == Negation(nRaw.formula.left)
        notRight == Negation(nRaw.formula.right)
    IN  CASE nRaw.formula.operator = "and" ->
                IF nRaw.formula.left.type = "RelationPredicate"
                THEN rec(nRaw.formula.right, tupleVariable, TRUE, refs)
                ELSE rec(LogicalExpression(notLeft, "and", notRight),
                         tupleVariable, TRUE, refs)
          [] nRaw.formula.operator = "or" ->
                IF nRaw.formula.left.type = "RelationPredicate"
                THEN rec(notRight, tupleVariable, TRUE, refs)
                ELSE rec(LogicalExpression(notLeft, "or", notRight),
                         tupleVariable, TRUE, refs)
          [] nRaw.formula.operator = "implies" ->
                IF nRaw.formula.left.type = "RelationPredicate"
                THEN rec(notRight, tupleVariable, TRUE, refs)
                ELSE rec(LogicalExpression(nRaw.formula.left, "and", notRight),
                         tupleVariable, FALSE, refs)
          [] OTHER -> Ret(Throw("Error"), refs)

\* case 'Negation' of a 'LogicalExpression': the De Morgan rewrites
recNegationLogical(nRaw, tupleVariable, negated, refs) ==
    LET notLeft == Negation(nRaw.formula.left)
        notRight == Negation(nRaw.formula.right)
    IN  CASE nRaw.formula.operator = "and" ->
                IF nRaw.formula.left.type = "RelationPredicate"
                THEN rec(nRaw.formula.right, tupleVariable, TRUE, refs)
                ELSE rec(LogicalExpression(notLeft, "or", notRight),
                         tupleVariable, TRUE, refs)
          [] nRaw.formula.operator = "or" ->
                IF nRaw.formula.left.type = "RelationPredicate"
                THEN rec(notRight, tupleVariable, TRUE, refs)
                ELSE rec(LogicalExpression(notLeft, "and", notRight),
                         tupleVariable, TRUE, refs)
          [] nRaw.formula.operator = "implies" ->
                IF nRaw.formula.left.type = "RelationPredicate"
                THEN rec(notRight, tupleVariable, TRUE, refs)
                ELSE rec(LogicalExpression(nRaw.formula.left, "and", notRight),
                         tupleVariable, FALSE, refs)
          [] OTHER -> Ret(Throw("Error"), refs)

\* case 'Negation'
recNegation(nRaw, tupleVariable, negated, refs) ==
    CASE nRaw.formula.type = "Negation" ->
            rec(nRaw.formula, tupleVariable, FALSE, refs)
      [] nRaw.formula.type = "Predicate" ->
            rec(nRaw.formula, tupleVariable, TRUE, refs)
      [] nRaw.formula.type = "QuantifiedExpression" ->
            rec(nRaw.formula, tupleVariable, TRUE, refs)
      [] nRaw.formula.type = "LogicalExpression" ->
            recNegationLogical(nRaw, tupleVariable, negated, refs)
      [] OTHER -> Ret(Throw("Error"), refs)

\* recPredicate with the flipped operator assigned to the AST node itself:
\* nRaw.operator = notOp in place of nRaw = { ...nRaw, operator: notOp }
recPredicateInPlace(nRaw, tupleVariable, negated, refs) ==
    LET assigned == IF negated
                    THEN [refs EXCEPT !.written = @ \cup
                            { << nRaw,
                                 [nRaw EXCEPT !.operator = notOperator(nRaw.operator)] >> }]
                    ELSE refs
        leftRelationName == MapGet(assigned, nRaw.left.variable)
        leftRelation == CatalogCopy(leftRelationName, assigned)
        flipped == IF negated
                   THEN [nRaw EXCEPT !.operator = notOperator(nRaw.operator)]
                   ELSE nRaw
    IN  IF leftRelationName = NULL THEN Ret(Throw("Error"), assigned)
        ELSE IF IsThrow(leftRelation) THEN Ret(leftRelation, assigned)
        ELSE IF flipped.right.type = "AttributeReference"
        THEN LET rightRelationName == MapGet(assigned, flipped.right.variable)
                 rightRelation == CatalogCopy(rightRelationName, Allocated(assigned))
             IN  IF rightRelationName = NULL THEN Ret(Throw("Error"), Allocated(assigned))
                 ELSE IF IsThrow(rightRelation)
                 THEN Ret(rightRelation, Allocated(assigned))
                 ELSE Ret(InnerJoin(leftRelation, rightRelation,
                             ThetaCondition(recValueExpr(
                                 convertPredicate(flipped, assigned)))),
                          Allocated(Allocated(assigned)))
        ELSE Ret(Selection(leftRelation,
                           recValueExpr(convertPredicate(flipped, assigned))),
                 Allocated(assigned))

\* case 'Predicate'
recPredicate(nRaw, tupleVariable, negated, refs) ==
    LET leftRelationName == MapGet(refs, nRaw.left.variable)
        leftRelation == CatalogCopy(leftRelationName, refs)
        flipped == IF negated
                   THEN [nRaw EXCEPT !.operator = notOperator(nRaw.operator)]
                   ELSE nRaw
    IN  IF leftRelationName = NULL THEN Ret(Throw("Error"), refs)
        ELSE IF IsThrow(leftRelation) THEN Ret(leftRelation, refs)
        ELSE IF flipped.right.type = "AttributeReference"
        THEN LET rightRelationName == MapGet(refs, flipped.right.variable)
                 rightRelation == CatalogCopy(rightRelationName, Allocated(refs))
             IN  IF rightRelationName = NULL THEN Ret(Throw("Error"), Allocated(refs))
                 ELSE IF IsThrow(rightRelation)
                 THEN Ret(rightRelation, Allocated(refs))
                 ELSE Ret(InnerJoin(leftRelation, rightRelation,
                             ThetaCondition(recValueExpr(
                                 convertPredicate(flipped, refs)))),
                          Allocated(Allocated(refs)))
        ELSE Ret(Selection(leftRelation,
                           recValueExpr(convertPredicate(flipped, refs))),
                 Allocated(refs))

\* the switch on nRaw.type; a type without a case falls through to undefined
rec(nRaw, tupleVariable, negated, refs) ==
    CASE nRaw.type = "TRC_Expr" ->
            recTRC_Expr(nRaw, tupleVariable, negated, refs)
      [] nRaw.type = "LogicalExpression" ->
            recLogicalExpression(nRaw, tupleVariable, negated, refs)
      [] nRaw.type = "QuantifiedExpression" ->
            recQuantifiedExpression(nRaw, tupleVariable, negated, refs)
      [] nRaw.type = "RelationPredicate" ->
            recRelationPredicate(nRaw, tupleVariable, negated, refs)
      [] nRaw.type = "Negation" ->
            recNegation(nRaw, tupleVariable, negated, refs)
      [] nRaw.type = "Predicate" ->
            recPredicate(nRaw, tupleVariable, negated, refs)
      [] OTHER -> Ret([op |-> "undefined"], refs)

relalgFromTRCAstRoot(ast) == rec(ast, NULL, FALSE, setupReferences(ast, OnEntry))

-----------------------------------------------------------------------------
(* The SQL and relational-algebra AST node shapes.  codeInfo is NULL for a  *)
(* node that carries none.                                                   *)

rootSql(child) == [type |-> "sqlRoot", child |-> child]

sqlRelation(name, relAlias, codeInfo) ==
    [type |-> "relation", name |-> name, relAlias |-> relAlias, codeInfo |-> codeInfo]

sqlSetOperation(type, child, child2, codeInfo) ==
    [type |-> type, child |-> child, child2 |-> child2, all |-> FALSE,
     codeInfo |-> codeInfo]

sqlLimit(child, limit, offset, codeInfo) ==
    [type |-> "limit", child |-> child, limit |-> limit, offset |-> offset,
     codeInfo |-> codeInfo]

rootRelalg(child) == [type |-> "relalgRoot", child |-> child]

relalgRelation(name, codeInfo) ==
    [type |-> "relation", name |-> name, codeInfo |-> codeInfo]

relalgTable(name, rows, codeInfo) ==
    [type |-> "table", name |-> name, columns |-> SchemaOf(name), rows |-> rows,
     codeInfo |-> codeInfo]

relalgBinary(type, child, child2, codeInfo) ==
    [type |-> type, child |-> child, child2 |-> child2, codeInfo |-> codeInfo]

RenameRelation(child, newRelAlias) ==
    [op |-> "RenameRelation", child |-> child, newRelAlias |-> newRelAlias]

\* raNode.setCodeInfoObject(codeInfo)
setCodeInfoObject(raNode, codeInfo) ==
    [f \in DOMAIN raNode \cup {"codeInfo"} |->
        IF f = "codeInfo" THEN codeInfo ELSE raNode[f]]

-----------------------------------------------------------------------------
(* relalgFromSQLAstRoot *)

\* setCodeInfoFromNode: 'should not happen' for a node without codeInfo
setCodeInfoFromNode(raNode, astNode) ==
    IF astNode.codeInfo = NULL
    THEN Throw("Error")
    ELSE setCodeInfoObject(raNode, astNode.codeInfo)

\* what every case of rec ends with
recSQLEpilogue(out, nRaw) ==
    IF IsThrow(out.node) THEN out
    ELSE Ret(setCodeInfoFromNode(out.node, nRaw), out.refs)

recSQLRelation(n, refs) ==
    IF n.name \notin DOMAIN relations
    THEN Ret(Throw("ExecutionError"), refs)
    ELSE LET rel == CatalogCopy(n.name, refs) IN
         IF n.relAlias = NULL
         THEN Ret(rel, Allocated(refs))
         ELSE Ret(RenameRelation(rel, n.relAlias), Allocated(refs))

\* conditionOffset and conditionLimit with the bound one less than limit + offset
recSQLLimitConditionShort(limit, offset) ==
    LET conditionOffset ==
            ValueExprGeneric("boolean", ">",
                << ValueExprGeneric("number", "rownum", << >>),
                   ValueExprGeneric("number", "constant", << offset >>) >>)
    IN  IF limit = -1
        THEN conditionOffset
        ELSE ValueExprGeneric("boolean", "and",
                << conditionOffset,
                   ValueExprGeneric("boolean", "<",
                      << ValueExprGeneric("number", "rownum", << >>),
                         ValueExprGeneric("number", "constant", << limit + offset >>) >>) >>)

recSQLLimitCondition(limit, offset) ==
    LET conditionOffset ==
            ValueExprGeneric("boolean", ">",
                << ValueExprGeneric("number", "rownum", << >>),
                   ValueExprGeneric("number", "constant", << offset >>) >>)
    IN  IF limit = -1
        THEN conditionOffset
        ELSE ValueExprGeneric("boolean", "and",
                << conditionOffset,
                   ValueExprGeneric("boolean", "<=",
                      << ValueExprGeneric("number", "rownum", << >>),
                         ValueExprGeneric("number", "constant", << limit + offset >>) >>) >>)

RECURSIVE recSQL(_,_)
\* rec1, rec2 are translated for the size estimate and dropped; the children
\* of the join are translated again
recSQLCrossJoin(n, refs) ==
    LET rec1 == recSQL(n.child, refs) IN
    IF IsThrow(rec1.node) THEN rec1
    ELSE LET rec2 == recSQL(n.child2, rec1.refs) IN
    IF IsThrow(rec2.node) THEN rec2
    ELSE LET left == recSQL(n.child, rec2.refs) IN
    IF IsThrow(left.node) THEN left
    ELSE LET right == recSQL(n.child2, left.refs) IN
    IF IsThrow(right.node) THEN right
    ELSE Ret(CrossJoin(left.node, right.node), right.refs)

recSQLUnion(n, refs) ==
    LET left == recSQL(n.child, refs) IN
    IF IsThrow(left.node) THEN left
    ELSE LET right == recSQL(n.child2, left.refs) IN
    IF IsThrow(right.node) THEN right
    ELSE Ret(Union(left.node, right.node), right.refs)

recSQLLimit(n, refs) ==
    LET child == recSQL(n.child, refs) IN
    IF IsThrow(child.node) THEN child
    ELSE Ret(Selection(child.node, recSQLLimitCondition(n.limit, n.offset)), child.refs)

recSQL(nRaw, refs) ==
    CASE nRaw.type = "relation" -> recSQLEpilogue(recSQLRelation(nRaw, refs), nRaw)
      [] nRaw.type = "crossJoin" -> recSQLEpilogue(recSQLCrossJoin(nRaw, refs), nRaw)
      [] nRaw.type = "union" -> recSQLEpilogue(recSQLUnion(nRaw, refs), nRaw)
      [] nRaw.type = "limit" -> recSQLEpilogue(recSQLLimit(nRaw, refs), nRaw)
      [] OTHER -> Ret(Throw("Error"), refs)

relalgFromSQLAstRoot(ast) == recSQL(ast.child, OnEntry)

-----------------------------------------------------------------------------
(* relalgFromRelalgAstRoot *)

\* setAdditionalData: the node takes the AST node's codeInfo, present or not
setAdditionalData(astNode, node) == setCodeInfoObject(node, astNode.codeInfo)

recRARelation(n, refs) ==
    IF n.name \notin DOMAIN relations
    THEN Ret(Throw("ExecutionError"), refs)
    ELSE Ret(setAdditionalData(n, CatalogCopy(n.name, refs)), Allocated(refs))

\* an inline table: a new Relation holding the rows written in the query
recRATable(n, refs) ==
    Ret(setAdditionalData(n,
            [op |-> "Relation", name |-> n.name, schema |-> n.columns,
             rows |-> n.rows, object |-> refs.objects + 1]),
        Allocated(refs))

RECURSIVE recRANode(_,_)
recRABinary(n, refs) ==
    LET child == recRANode(n.child, refs) IN
    IF IsThrow(child.node) THEN child
    ELSE LET child2 == recRANode(n.child2, child.refs) IN
    IF IsThrow(child2.node) THEN child2
    ELSE Ret(setAdditionalData(n,
                IF n.type = "union" THEN Union(child.node, child2.node)
                                    ELSE CrossJoin(child.node, child2.node)),
             child2.refs)

recRANode(n, refs) ==
    CASE n.type = "relation" -> recRARelation(n, refs)
      [] n.type = "table" -> recRATable(n, refs)
      [] n.type \in {"union", "crossJoin"} -> recRABinary(n, refs)
      [] OTHER -> Ret([op |-> "undefined"], refs)

relalgFromRelalgAstRoot(ast) == recRANode(ast.child, OnEntry)

-----------------------------------------------------------------------------
(* Evaluation of an RA tree: RANode.check() followed by getResult(), under  *)
(* set semantics.  A natural join equates like-named columns; a semi-join   *)
(* keeps the rows of one side that have a partner on the other.             *)

Ok(schema, rows) == [error |-> "none", schema |-> schema, rows |-> rows]

Failed(error) == [error |-> error, schema |-> << >>, rows |-> {}]

\* the positions of a schema a column reference (name, optional alias) denotes
ColumnIndexes(schema, name, relAlias) ==
    { i \in 1 .. Len(schema) :
        /\ schema[i].name = name
        /\ (relAlias = NULL \/ schema[i].relAlias = relAlias) }

Compare(op, x, y) ==
    CASE op = "=" -> x = y
      [] op = "!=" -> x # y
      [] op = "<" -> x < y
      [] op = ">" -> x > y
      [] op = "<=" -> x <= y
      [] op = ">=" -> x >= y

\* check() of one operand of a comparison: the error it raises, or "none"
OperandError(schema, arg) ==
    IF arg.kind = "ColumnValue"
    THEN LET idx == ColumnIndexes(schema, arg.name, arg.relAlias) IN
         IF idx = {} THEN "column-not-found"
         ELSE IF Cardinality(idx) > 1 THEN "column-ambiguous"
         ELSE "none"
    ELSE "none"

OperandType(schema, arg) ==
    IF arg.kind = "ColumnValue"
    THEN schema[CHOOSE i \in ColumnIndexes(schema, arg.name, arg.relAlias) : TRUE].type
    ELSE arg.datatype

OperandValue(schema, row, arg) ==
    IF arg.kind = "ColumnValue"
    THEN row[CHOOSE i \in ColumnIndexes(schema, arg.name, arg.relAlias) : TRUE]
    ELSE arg.args[1]

\* check() of a boolean comparison against a schema
ConditionError(schema, expr) ==
    LET l == OperandError(schema, expr.args[1])
        r == OperandError(schema, expr.args[2])
    IN  IF l # "none" THEN l
        ELSE IF r # "none" THEN r
        ELSE IF OperandType(schema, expr.args[1]) # OperandType(schema, expr.args[2])
        THEN "type-mismatch"
        ELSE "none"

ConditionHolds(schema, row, expr) ==
    Compare(expr.func, OperandValue(schema, row, expr.args[1]),
                       OperandValue(schema, row, expr.args[2]))

\* the pairs of positions a natural join equates: like-named columns
NaturalPairs(schemaA, schemaB) ==
    { p \in (1 .. Len(schemaA)) \X (1 .. Len(schemaB)) :
        schemaA[p[1]].name = schemaB[p[2]].name }

NaturalMatch(schemaA, schemaB, rowA, rowB) ==
    \A p \in NaturalPairs(schemaA, schemaB) : rowA[p[1]] = rowB[p[2]]

\* two columns of a concatenated schema may not share both name and alias
JoinConflict(schemaA, schemaB) ==
    \E i \in 1 .. Len(schemaA), j \in 1 .. Len(schemaB) :
        /\ schemaA[i].name = schemaB[j].name
        /\ schemaA[i].relAlias = schemaB[j].relAlias

\* union compatibility: the same number of columns, of the same types
Unifiable(schemaA, schemaB) ==
    /\ Len(schemaA) = Len(schemaB)
    /\ \A i \in 1 .. Len(schemaA) : schemaA[i].type = schemaB[i].type

\* rows are numbered from 1 in the order the relation holds them: here the
\* lexicographic order of the rows
LexLess(x, y) ==
    \E k \in 1 .. Len(x) : x[k] < y[k] /\ \A j \in 1 .. (k - 1) : x[j] = y[j]

rownum(rows, row) == 1 + Cardinality({ other \in rows : LexLess(other, row) })

RECURSIVE UsesRownum(_)
UsesRownum(expr) ==
    /\ expr.kind = "Generic"
    /\ \/ expr.func = "rownum"
       \/ expr.func # "constant" /\ \E i \in 1 .. Len(expr.args) : UsesRownum(expr.args[i])

\* the value of an expression over rownum and constants at row number i
RECURSIVE ValueAt(_, _)
ValueAt(expr, i) ==
    CASE expr.func = "rownum" -> i
      [] expr.func = "constant" -> expr.args[1]
      [] expr.func = "and" -> ValueAt(expr.args[1], i) /\ ValueAt(expr.args[2], i)
      [] OTHER -> Compare(expr.func, ValueAt(expr.args[1], i), ValueAt(expr.args[2], i))

RECURSIVE getResult(_)
getResult(node) ==
    CASE node.op = "Relation" -> Ok(node.schema, node.rows)
      [] node.op = "Selection" ->
            LET c == getResult(node.child) IN
            IF c.error # "none" THEN c
            ELSE LET e == ConditionError(c.schema, node.condition) IN
                 IF e # "none" THEN Failed(e)
                 ELSE IF UsesRownum(node.condition)
                 THEN Ok(c.schema,
                         { row \in c.rows : ValueAt(node.condition, rownum(c.rows, row)) })
                 ELSE Ok(c.schema,
                         { row \in c.rows : ConditionHolds(c.schema, row, node.condition) })
      [] node.op = "Projection" ->
            LET c == getResult(node.child) IN
            IF c.error # "none" THEN c
            ELSE LET idx(i) == ColumnIndexes(c.schema, node.cols[i].name,
                                             node.cols[i].relAlias)
                     pos(i) == CHOOSE k \in idx(i) : TRUE
                     n == Len(node.cols)
                 IN  IF \E i \in 1 .. n : idx(i) = {} THEN Failed("column-not-found")
                     ELSE IF \E i \in 1 .. n : Cardinality(idx(i)) > 1
                     THEN Failed("column-ambiguous")
                     ELSE Ok([i \in 1 .. n |-> c.schema[pos(i)]],
                             { [i \in 1 .. n |-> row[pos(i)]] : row \in c.rows })
      [] node.op = "GroupBy" ->
            LET c == getResult(node.child) IN
            IF c.error # "none" THEN c
            ELSE Ok(<< Column(node.aggregate[1].name, NULL, "number") >>,
                    { << Cardinality(c.rows) >> })
      [] node.op \in {"Union", "SemiJoin", "AntiJoin", "InnerJoin", "CrossJoin"} ->
            LET a == getResult(node.child) IN
            IF a.error # "none" THEN a
            ELSE LET b == getResult(node.child2) IN
            IF b.error # "none" THEN b
            ELSE CASE node.op = "Union" ->
                        IF ~Unifiable(a.schema, b.schema)
                        THEN Failed("schemas-not-unifiable")
                        ELSE Ok(a.schema, a.rows \cup b.rows)
                   [] node.op = "SemiJoin" ->
                        IF node.isLeft
                        THEN Ok(a.schema,
                                { x \in a.rows : \E y \in b.rows :
                                    NaturalMatch(a.schema, b.schema, x, y) })
                        ELSE Ok(b.schema,
                                { y \in b.rows : \E x \in a.rows :
                                    NaturalMatch(a.schema, b.schema, x, y) })
                   [] node.op = "AntiJoin" ->
                        Ok(a.schema,
                           { x \in a.rows : ~ \E y \in b.rows :
                               NaturalMatch(a.schema, b.schema, x, y) })
                   [] node.op = "CrossJoin" ->
                        IF JoinConflict(a.schema, b.schema)
                        THEN Failed("non-unique-columns")
                        ELSE Ok(a.schema \o b.schema,
                                { x \o y : x \in a.rows, y \in b.rows })
                   [] node.op = "InnerJoin" ->
                        IF JoinConflict(a.schema, b.schema)
                        THEN Failed("non-unique-columns")
                        ELSE LET schema == a.schema \o b.schema
                                 e == ConditionError(schema, node.condition.joinExpression)
                             IN  IF e # "none" THEN Failed(e)
                                 ELSE Ok(schema,
                                         { z \in { x \o y : x \in a.rows, y \in b.rows } :
                                             ConditionHolds(schema, z,
                                                 node.condition.joinExpression) })
      [] OTHER -> Failed("not-a-node")

-----------------------------------------------------------------------------
(* The queries translated: { t | Rel(t) and body }, the outer tuple         *)
(* variable t bound to a catalog relation, quantified variables s.          *)

\* the relations a query names
RECURSIVE NamedRelations(_)
NamedRelations(n) ==
    CASE n.type = "RelationPredicate" -> {n.relation}
      [] n.type \in {"TRC_Expr", "Negation", "QuantifiedExpression"} ->
            NamedRelations(n.formula)
      [] n.type = "LogicalExpression" -> NamedRelations(n.left) \cup NamedRelations(n.right)
      [] n.type = "relation" -> {n.name}
      [] n.type \in {"sqlRoot", "relalgRoot", "limit"} -> NamedRelations(n.child)
      [] n.type \in {"union", "crossJoin"} ->
            NamedRelations(n.child) \cup NamedRelations(n.child2)
      [] OTHER -> {}

\* the catalogs a query is translated against: every relation the query names
\* holds up to MaxRows rows; a relation it does not name is never read and is
\* left empty
TablesFor(ast, name) ==
    IF name \in NamedRelations(ast) THEN Tables(name) ELSE { {} }

Catalogs(ast) ==
    { [n \in RelationNames |-> Relation(n, IF n = "R" THEN r ELSE s)] :
        r \in TablesFor(ast, "R"), s \in TablesFor(ast, "S") }

Query(rel, body) ==
    TRC_Expr("t", << >>, LogicalExpression(RelationPredicate("t", rel), "and", body))

\* v.attribute op literal, for every column of rel
ConstComparisons(v, rel, ops, consts) ==
    { Predicate(AttributeReference(v, SchemaOf(rel)[i].name), op,
                Literal(c, SchemaOf(rel)[i].type)) :
        i \in 1 .. Len(SchemaOf(rel)), op \in ops, c \in consts }

RECURSIVE Negations(_, _)
Negations(k, formula) == IF k = 0 THEN formula ELSE Negation(Negations(k - 1, formula))

\* { t | Rel(t) and not ... not t.a op c }, under 0 .. MaxNeg negations
PredicateQueries ==
    UNION { { Query(rel, Negations(k, P)) :
                k \in 0 .. (IF rel = "R" THEN MaxNeg ELSE 1),
                P \in ConstComparisons("t", rel, Operators, Values) } :
            rel \in RelationNames }

\* the comparisons on the i-th column of rel
ColumnComparisons(v, rel, i, ops, consts) ==
    { Predicate(AttributeReference(v, SchemaOf(rel)[i].name), op,
                Literal(c, SchemaOf(rel)[i].type)) :
        op \in ops, c \in consts }

\* { t | R(t) and (P op Q) } and { t | R(t) and not (P op Q) }
LogicalQueries ==
    { Query("R", Negations(k, LogicalExpression(P, op, Q))) :
        k \in 0 .. 1,
        op \in {"and", "or", "implies"},
        P \in ColumnComparisons("t", "R", 1, Operators, Values),
        Q \in ColumnComparisons("t", "R", 2, {"=", "<", ">="}, Values) }

\* { t | R(t) and exists s (S(s) and P(s)) } and its negation, P mentioning only s
ExistsQueries ==
    { Query("R", Negations(k, QuantifiedExpression("exists", "s",
                LogicalExpression(RelationPredicate("s", "S"), "and", P)))) :
        k \in 0 .. 1,
        P \in ConstComparisons("s", "S", {"=", "<"}, Values) }

\* s.x op t.y over the like-typed columns x of inner and y of outer
CorrelatedComparisons(s, inner, t, outer, ops) ==
    { Predicate(AttributeReference(s, SchemaOf(inner)[i].name), op,
                AttributeReference(t, SchemaOf(outer)[j].name)) :
        op \in ops,
        i \in { i \in 1 .. Len(SchemaOf(inner)) : TRUE },
        j \in { j \in 1 .. Len(SchemaOf(outer)) : TRUE } }

LikeTyped(P, inner, outer) ==
    \E i \in 1 .. Len(SchemaOf(inner)), j \in 1 .. Len(SchemaOf(outer)) :
        /\ SchemaOf(inner)[i].name = P.left.attribute
        /\ SchemaOf(outer)[j].name = P.right.attribute
        /\ SchemaOf(inner)[i].type = SchemaOf(outer)[j].type

Other(rel) == IF rel = "R" THEN "S" ELSE "R"

\* { t | R(t) and exists s (S(s) and body) }
ExistsQuery(outer, inner, body) ==
    Query(outer, QuantifiedExpression("exists", "s",
            LogicalExpression(RelationPredicate("s", inner), "and", body)))

\* [not] exists s (S(s) and s.x op t.y), and with the roles of R and S exchanged
CorrelatedExistsQueries ==
    UNION { { [ExistsQuery(outer, Other(outer), P) EXCEPT
                  !.formula.right = Negations(k, @)] :
                k \in 0 .. 1,
                P \in { P \in CorrelatedComparisons("s", Other(outer), "t", outer,
                                                    Operators) :
                          LikeTyped(P, Other(outer), outer) } } :
            outer \in RelationNames }

\* [not] exists s (S(s) and (s.d op c and t.a op c))
ConjunctionExistsQueries ==
    { [ExistsQuery("R", "S", LogicalExpression(P, "and", Q)) EXCEPT
          !.formula.right = Negations(k, @)] :
        k \in 0 .. 1,
        P \in ColumnComparisons("s", "S", 2, {"<", "="}, Values),
        Q \in ColumnComparisons("t", "R", 1, {"<", "="}, Values) }

\* not exists s (S(s) and not (s.x op t.y)) and
\* not exists s (S(s) and exists u (S(u) and u.x op t.y))
NestedExistsQueries ==
    { [ExistsQuery("R", "S", body) EXCEPT !.formula.right = Negation(@)] :
        body \in
            { Negation(P) :
                P \in { P \in CorrelatedComparisons("s", "S", "t", "R", Operators) :
                          LikeTyped(P, "S", "R") } }
            \cup
            { QuantifiedExpression("exists", "u",
                  LogicalExpression(RelationPredicate("u", "S"), "and", P)) :
                P \in { P \in CorrelatedComparisons("u", "S", "t", "R", {"="}) :
                          LikeTyped(P, "S", "R") } } }

CorrelatedQueries ==
    CorrelatedExistsQueries \cup ConjunctionExistsQueries \cup NestedExistsQueries

\* [not] forall s (S(s) implies s.x op r.y), and with the roles of R and S exchanged
ForAllQueries ==
    UNION { { Query(outer, Negations(k, QuantifiedExpression("forAll", "s",
                  LogicalExpression(RelationPredicate("s", Other(outer)),
                                    "implies", P)))) :
                k \in 0 .. 1,
                P \in { P \in CorrelatedComparisons("s", Other(outer), "t", outer,
                                                    Operators) :
                          LikeTyped(P, Other(outer), outer) } } :
            outer \in RelationNames }

\* { t | R(t) and forall s (S(s) and P(s)) } and its negation, P mentioning only s
UniversalQueries ==
    { Query("R", Negations(k, QuantifiedExpression("forAll", "s",
                LogicalExpression(RelationPredicate("s", "S"), "and", P)))) :
        k \in 0 .. 1,
        P \in ConstComparisons("s", "S", {"=", "<"}, Values) }

\* [not] (P implies Q) over comparisons of t, and
\* [not] exists s (S(s) and ((P implies Q) and t.a < c)) over comparisons of s
ImplicationQueries ==
    { Query("R", Negations(k, LogicalExpression(P, "implies", Q))) :
        k \in 0 .. 1,
        P \in ColumnComparisons("t", "R", 1, {"=", "<"}, Values),
        Q \in ColumnComparisons("t", "R", 2, {"=", "<"}, Values) }
    \cup
    { [ExistsQuery("R", "S",
          LogicalExpression(LogicalExpression(P, "implies", Q), "and", T)) EXCEPT
          !.formula.right = Negations(k, @)] :
        k \in 0 .. 1,
        P \in ColumnComparisons("s", "S", 1, {"=", "<"}, Values),
        Q \in ColumnComparisons("s", "S", 2, {"=", "<"}, Values),
        T \in ColumnComparisons("t", "R", 1, {"<"}, Values) }

\* the projection lists over the columns of rel: none, one column, two in either order
ProjectionLists(rel) ==
    LET names == { SchemaOf(rel)[i].name : i \in 1 .. Len(SchemaOf(rel)) } IN
    { << >> } \cup { << x >> : x \in names }
              \cup { << p[1], p[2] >> : p \in { q \in names \X names : q[1] # q[2] } }

\* the formulas binding t to rel: R(t) alone, R(t) and P, P and R(t), S(s) and R(t)
BindingFormulas(rel) ==
    { RelationPredicate("t", rel) }
    \cup { LogicalExpression(RelationPredicate("t", rel), "and", P) :
             P \in ConstComparisons("t", rel, {"<"}, Values) }
    \cup { LogicalExpression(P, "and", RelationPredicate("t", rel)) :
             P \in ConstComparisons("t", rel, {"<"}, Values) }
    \cup { LogicalExpression(RelationPredicate("s", Other(rel)), "and",
                             RelationPredicate("t", rel)) }

\* { t.x, t.y | formula } and { t | formula }
ProjectionQueries ==
    UNION { { TRC_Expr("t", projections, formula) :
                projections \in ProjectionLists(rel),
                formula \in BindingFormulas(rel) } :
            rel \in RelationNames }

\* v.attribute op w.other
JoinComparison(v, attribute, op, w, other) ==
    Predicate(AttributeReference(v, attribute), op, AttributeReference(w, other))

\* v.attribute op c
NumberComparison(v, attribute, op, c) ==
    Predicate(AttributeReference(v, attribute), op, Literal(c, "number"))

\* the shapes a relation predicate naming rel is met in: as the outer relation,
\* as the range of an exists or a forall whose body uses the quantified
\* variable, the outer variable, or both, and beneath a negated conjunction
RangeQueries(rel) ==
    { TRC_Expr("t", << >>, RelationPredicate("t", rel)) }
    \cup { TRC_Expr("t", << >>, LogicalExpression(RelationPredicate("t", rel), "and",
                NumberComparison("t", "d", "<", c))) : c \in Values }
    \cup { Query("R", QuantifiedExpression(q, "s",
                LogicalExpression(RelationPredicate("s", rel), op, P))) :
             q \in {"exists", "forAll"},
             op \in {"and", "implies"},
             P \in { NumberComparison("s", "d", "<", c) : c \in Values }
                   \cup { NumberComparison("t", "a", "<", c) : c \in Values }
                   \cup { JoinComparison("s", "b", "=", "t", "b"),
                          JoinComparison("s", "d", "<", "t", "a") } }
    \cup { Query("R", Negation(LogicalExpression(RelationPredicate("s", rel), "and",
                NumberComparison("t", "a", "<", c)))) : c \in Values }

\* comparisons on a variable u that no relation predicate binds
UnboundQueries ==
    { Query("R", P) :
        P \in { NumberComparison("u", "a", "<", c) : c \in Values }
              \cup { JoinComparison("t", "a", "=", "u", "a"),
                     JoinComparison("u", "a", "=", "t", "a") } }
    \cup { ExistsQuery("R", "S", P) :
             P \in { JoinComparison("s", "b", "=", "u", "b"),
                     JoinComparison("u", "b", "=", "s", "b"),
                     NumberComparison("u", "d", "<", 0) } }
    \cup { TRC_Expr("t", << >>, NumberComparison("t", "a", "<", 0)) }

\* T is no relation of the catalog
ErrorQueries == RangeQueries("T") \cup RangeQueries("S") \cup UnboundQueries

\* queries whose relation predicates bind t a second time, to the same
\* relation or to another one: { t | R(t) and X(t) }, { t | R(t) and (X(t) and P) },
\* and the same for the variable s of an exists
RebindQueries ==
    UNION { { Query("R", RelationPredicate("t", rel)) }
            \cup { Query("R", LogicalExpression(RelationPredicate("t", rel), "and", P)) :
                     P \in { NumberComparison("t", "a", "<", c) : c \in Values } }
            \cup { ExistsQuery("R", "S",
                       LogicalExpression(RelationPredicate("s", rel), "and", P)) :
                     P \in { NumberComparison("s", "d", "<", c) : c \in Values } } :
            rel \in RelationNames }

\* the code-region tags of the AST nodes
CodeInfos == {"c1", "c2", "c3"}

\* SQL: a relation with and without an alias, and two relations under a
\* cross join, a union and a limit
IsolationSQL ==
    LET leaf(name, relAlias) == sqlRelation(name, relAlias, "c2") IN
    { rootSql(n) :
        n \in { leaf(name, relAlias) : name \in RelationNames, relAlias \in {NULL, "x"} }
           \cup { sqlSetOperation(type, leaf("R", x), leaf(name, y), "c1") :
                    type \in {"crossJoin", "union"},
                    name \in RelationNames,
                    x \in {NULL, "x"}, y \in {NULL, "y"} }
           \cup { sqlLimit(leaf(name, NULL), 1, 0, "c1") : name \in RelationNames } }

\* relational algebra: a relation, an inline table, and two of them under a
\* union and a cross join
IsolationRelalg ==
    LET leaves == { relalgRelation(name, "c2") : name \in RelationNames }
                    \cup { relalgTable("R", {<<0, 0>>}, "c3") }
    IN  { rootRelalg(n) :
            n \in leaves \cup { relalgBinary(type, x, y, "c1") :
                                  type \in {"union", "crossJoin"},
                                  x \in leaves, y \in leaves } }

\* TRC: one query for every place the translator copies a catalog relation
IsolationTRC ==
    LET quantified(q) == IF q.formula.right.type = "Negation"
                         THEN q.formula.right.formula
                         ELSE q.formula.right
    IN  UNION { { Query(rel, P) : P \in ConstComparisons("t", rel, {"="}, {0}) } :
                rel \in RelationNames }
        \cup ExistsQueries
        \cup { q \in CorrelatedExistsQueries \cup ForAllQueries :
                 quantified(q).formula.right.operator = "=" }
        \cup RebindQueries

IsolationQueries == IsolationTRC \cup IsolationSQL \cup IsolationRelalg

\* a TRC AST whose nodes all carry a code-region tag
TagOf(n) ==
    CASE n.type = "TRC_Expr" -> "c1"
      [] n.type \in {"LogicalExpression", "Negation", "QuantifiedExpression"} -> "c2"
      [] OTHER -> "c3"

RECURSIVE Tagged(_)
Tagged(n) ==
    [f \in DOMAIN n \cup {"codeInfo"} |->
        IF f = "codeInfo" THEN TagOf(n)
        ELSE IF f \in {"formula", "left", "right"} THEN Tagged(n[f])
        ELSE n[f]]

\* SQL trees whose nodes carry a tag or none
CodeInfoSQL ==
    LET tags == CodeInfos \cup {NULL} IN
    { rootSql(n) :
        n \in { sqlRelation(name, relAlias, c) :
                  name \in RelationNames, relAlias \in {NULL, "x"}, c \in tags }
           \cup { sqlSetOperation(type, sqlRelation("R", NULL, c[1]),
                                  sqlRelation("S", NULL, c[2]), c[3]) :
                    type \in {"crossJoin", "union"}, c \in tags \X tags \X tags } }

CodeInfoQueries == { Tagged(q) : q \in IsolationTRC \cup LogicalQueries } \cup CodeInfoSQL

\* LIMIT n OFFSET k over a relation; n = -1 is LIMIT ALL
LimitQueries ==
    { rootSql(sqlLimit(sqlRelation(name, NULL, "c2"), n, k, "c1")) :
        name \in RelationNames, n \in -1 .. MaxLimit, k \in 0 .. MaxLimit }

\* { t | R(t) and (P or X) }, X a comparison on t or an uncorrelated exists
SchemaQueries ==
    { Query("R", LogicalExpression(P, "or", X)) :
        P \in ColumnComparisons("t", "R", 1, {">", "="}, Values),
        X \in ColumnComparisons("t", "R", 2, {"="}, Values)
              \cup { QuantifiedExpression("exists", "s",
                        LogicalExpression(RelationPredicate("s", "S"), "and", Q)) :
                      Q \in ColumnComparisons("s", "S", 2, {">", "="}, Values) } }

\* { t | R(t) and exists s (S(s) and exists u (Rel(u) and u.x op v.y)) },
\* v the root variable t or the enclosing quantified variable s
NestedQuantifierQueries ==
    UNION { { ExistsQuery("R", "S",
                  QuantifiedExpression("exists", "u",
                      LogicalExpression(RelationPredicate("u", rel), "and", P))) :
                P \in { P \in CorrelatedComparisons("u", rel, "t", "R", {"=", "<"}) :
                          LikeTyped(P, rel, "R") }
                   \cup { P \in CorrelatedComparisons("u", rel, "s", "S", {"=", "<"}) :
                            LikeTyped(P, rel, "S") } } :
            rel \in RelationNames }

\* queries with a relation predicate beneath a negation: wrapped by the
\* Negation itself, or the range of a negated quantifier
NegatedRangeQueries ==
    { Query("R", Negations(k, RelationPredicate(v, rel))) :
        k \in 1 .. 2, v \in {"t", "s"}, rel \in RelationNames }
    \cup { Query("R", LogicalExpression(P, op, Negation(RelationPredicate("s", "S")))) :
             op \in {"and", "or"},
             P \in ColumnComparisons("t", "R", 1, {"<"}, Values) }
    \cup { Query("R", Negation(QuantifiedExpression(q, "s",
                LogicalExpression(RelationPredicate("s", "S"),
                                  IF q = "exists" THEN "and" ELSE "implies", P)))) :
             q \in {"exists", "forAll"},
             P \in ColumnComparisons("s", "S", 2, {"<", "="}, Values)
                   \cup { JoinComparison("s", "b", "=", "t", "b"),
                          JoinComparison("s", "d", "<", "t", "a") } }

\* { t | Rel(t) and t.x op t.y } over the like-typed columns x, y of Rel, and
\* { t | Rel(t) and t.x op c }
SelfComparisonQueries ==
    UNION { { Query(rel, P) :
                P \in { P \in CorrelatedComparisons("t", rel, "t", rel, Operators) :
                          LikeTyped(P, rel, rel) }
                   \cup ConstComparisons("t", rel, {"<"}, Values) } :
            rel \in RelationNames }

\* { t | Rel(t) and F }, F a comparison with a constant, of two attributes,
\* a quantifier, a disjunction, a second relation predicate
ConjunctionQueries ==
    LET exists(body) == QuantifiedExpression("exists", "s",
                            LogicalExpression(RelationPredicate("s", "S"), "and", body))
        forAll(body) == QuantifiedExpression("forAll", "s",
                            LogicalExpression(RelationPredicate("s", "S"), "implies", body))
        bodies == { NumberComparison("s", "d", "<", 1),
                    JoinComparison("s", "b", "=", "t", "b"),
                    JoinComparison("s", "d", "<", "t", "a") }
    IN  SelfComparisonQueries
        \cup { Query("R", Negations(k, exists(P))) : k \in 0 .. 1, P \in bodies }
        \cup { Query("R", forAll(P)) : P \in bodies }
        \cup { Query("R", LogicalExpression(NumberComparison("t", "a", "<", 1), "or",
                                            exists(NumberComparison("s", "d", "<", 1)))),
               Query("R", RelationPredicate("t", "S")),
               Query("R", JoinComparison("t", "b", "=", "s", "b")) }

\* queries translated twice: comparisons under 0 .. MaxNeg negations, the
\* quantifier rewrites, and queries whose translation throws
TwiceQueries == PredicateQueries \cup IsolationTRC \cup UnboundQueries

\* catalogs of at most one row a relation
SmallCatalogs(ast) ==
    { c \in Catalogs(ast) : \A n \in DOMAIN c : Cardinality(c[n].rows) <= 1 }

InitWith(queries) ==
    /\ astRoot \in queries
    /\ relations \in Catalogs(astRoot)
    /\ references = EmptyMap
    /\ root = [op |-> "none"]
    /\ result = Failed("not-evaluated")
    /\ pc = "start"

Init == InitWith(PredicateQueries)

InitLogical == InitWith(LogicalQueries)

InitExists == InitWith(ExistsQueries)

InitCorrelated == InitWith(CorrelatedQueries)

InitForAll == InitWith(ForAllQueries)

InitUniversal == InitWith(UniversalQueries)

InitImplication == InitWith(ImplicationQueries)

InitProjection == InitWith(ProjectionQueries)

InitError == InitWith(ErrorQueries)

InitRebind == InitWith(RebindQueries)

InitLimit == InitWith(LimitQueries)

InitSchema == InitWith(SchemaQueries)

InitNested == InitWith(NestedQuantifierQueries)

InitNegatedRange == InitWith(NegatedRangeQueries)

InitSelfComparison == InitWith(SelfComparisonQueries)

InitConjunction == InitWith(ConjunctionQueries)

InitSmall(queries) ==
    /\ astRoot \in queries
    /\ relations \in SmallCatalogs(astRoot)
    /\ references = EmptyMap
    /\ root = [op |-> "none"]
    /\ result = Failed("not-evaluated")
    /\ pc = "start"

InitIsolation == InitSmall(IsolationQueries)

InitCodeInfo == InitSmall(CodeInfoQueries)

InitTwice == InitSmall(TwiceQueries)

\* the AST as a call leaves it: each node a field of which was assigned is
\* the node as left, every other node is as it was
RECURSIVE Written(_, _)
Written(n, written) ==
    LET hit == { w \in written : w[1] = n } IN
    IF hit # {}
    THEN (CHOOSE w \in hit : TRUE)[2]
    ELSE [f \in DOMAIN n |->
            IF f \in {"formula", "left", "right"} THEN Written(n[f], written) ELSE n[f]]

\* const root = relalgFromTRCAstRoot(ast, relations)
Translate ==
    /\ pc = "start"
    /\ astRoot.type = "TRC_Expr"
    /\ LET out == relalgFromTRCAstRoot(astRoot) IN
        /\ root' = out.node
        /\ references' = out.refs.references
        /\ astRoot' = Written(astRoot, out.refs.written)
    /\ pc' = "translated"
    /\ UNCHANGED << relations, result >>

\* a second call on the same AST and catalog:
\* relalgFromTRCAstRoot(ast, relations) once more
Retranslate ==
    /\ pc = "translated"
    /\ astRoot.type = "TRC_Expr"
    /\ LET out == relalgFromTRCAstRoot(astRoot) IN
        /\ root' = out.node
        /\ references' = out.refs.references
        /\ astRoot' = Written(astRoot, out.refs.written)
    /\ pc' = "retranslated"
    /\ UNCHANGED << relations, result >>

\* root.check(); root.getResult() -- not reached when the translation threw
GetResult ==
    /\ pc = "translated"
    /\ ~IsThrow(root)
    /\ root.op # "undefined"
    /\ result' = getResult(root)
    /\ pc' = "evaluated"
    /\ UNCHANGED << relations, astRoot, references, root >>

\* const root = relalgFromSQLAstRoot(ast, relations)
TranslateSQL ==
    /\ pc = "start"
    /\ astRoot.type = "sqlRoot"
    /\ root' = relalgFromSQLAstRoot(astRoot).node
    /\ pc' = "translated"
    /\ UNCHANGED << relations, astRoot, references, result >>

\* const root = relalgFromRelalgAstRoot(ast, relations)
TranslateRelalg ==
    /\ pc = "start"
    /\ astRoot.type = "relalgRoot"
    /\ root' = relalgFromRelalgAstRoot(astRoot).node
    /\ pc' = "translated"
    /\ UNCHANGED << relations, astRoot, references, result >>

\* what a tree shows once the rows of the Relation object `object` are `rows`
RECURSIVE Seen(_, _, _)
Seen(node, object, rows) ==
    CASE node.op = "Relation" ->
            IF node.object = object THEN [node EXCEPT !.rows = rows] ELSE node
      [] Has(node, "child2") ->
            [node EXCEPT !.child = Seen(node.child, object, rows),
                         !.child2 = Seen(node.child2, object, rows)]
      [] Has(node, "child") -> [node EXCEPT !.child = Seen(node.child, object, rows)]
      [] OTHER -> node

\* after translate has returned, the caller adds a row to a catalog relation
\* or removes one from it
Mutate ==
    /\ pc = "translated"
    /\ \E name \in DOMAIN relations : \E row \in RowsOf(name) :
          LET rows == IF row \in relations[name].rows
                      THEN relations[name].rows \ {row}
                      ELSE relations[name].rows \cup {row}
          IN  /\ relations' = [relations EXCEPT ![name].rows = rows]
              /\ root' = Seen(root, relations[name].object, rows)
    /\ pc' = "mutated"
    /\ UNCHANGED << astRoot, references, result >>

Next == Translate \/ GetResult

Spec == Init /\ [][Next]_vars

SpecLogical == InitLogical /\ [][Next]_vars

SpecExists == InitExists /\ [][Next]_vars

SpecCorrelated == InitCorrelated /\ [][Next]_vars

SpecForAll == InitForAll /\ [][Next]_vars

SpecUniversal == InitUniversal /\ [][Next]_vars

SpecImplication == InitImplication /\ [][Next]_vars

SpecProjection == InitProjection /\ [][Next]_vars

SpecError == InitError /\ [][Next]_vars

SpecRebind == InitRebind /\ [][Next]_vars

SpecSchema == InitSchema /\ [][Next]_vars

SpecNested == InitNested /\ [][Next]_vars

SpecNegatedRange == InitNegatedRange /\ [][Next]_vars

SpecSelfComparison == InitSelfComparison /\ [][Next]_vars

SpecConjunction == InitConjunction /\ [][Next]_vars

NextTwice == Translate \/ Retranslate

SpecTwice == InitTwice /\ [][NextTwice]_vars

NextIsolation == Translate \/ TranslateSQL \/ TranslateRelalg \/ Mutate

SpecIsolation == InitIsolation /\ [][NextIsolation]_vars

NextCodeInfo == Translate \/ TranslateSQL

SpecCodeInfo == InitCodeInfo /\ [][NextCodeInfo]_vars

NextLimit == TranslateSQL \/ GetResult

SpecLimit == InitLimit /\ [][NextLimit]_vars

-----------------------------------------------------------------------------
(* What the queries denote: the reading of the calculus the claims state.   *)

\* { t | Rel(t) and body } without projections
IsQuery(ast) ==
    /\ ast.type = "TRC_Expr"
    /\ Len(ast.projections) = 0
    /\ ast.formula.type = "LogicalExpression"
    /\ ast.formula.operator = "and"
    /\ ast.formula.left.type = "RelationPredicate"
    /\ ast.formula.left.variable = ast.variable

OuterRelation(ast) == relations[ast.formula.left.relation]

Body(ast) == ast.formula.right

\* v.attribute op literal
IsConstComparison(n, v) ==
    /\ n.type = "Predicate"
    /\ n.left.variable = v
    /\ n.right.type = "Literal"

\* the value of a row's attribute
AttributeValue(rel, row, attribute) ==
    row[CHOOSE i \in 1 .. Len(rel.schema) : rel.schema[i].name = attribute]

\* row satisfies the comparison P against a constant
Satisfies(rel, row, P) ==
    Compare(P.operator, AttributeValue(rel, row, P.left.attribute), P.right.value)

\* the number of Negation nodes on top of a formula, and the formula beneath them
RECURSIVE NegationDepth(_)
NegationDepth(n) == IF n.type = "Negation" THEN 1 + NegationDepth(n.formula) ELSE 0

RECURSIVE Beneath(_)
Beneath(n) == IF n.type = "Negation" THEN Beneath(n.formula) ELSE n

Translated == pc # "start"

Evaluated == pc = "evaluated"

-----------------------------------------------------------------------------
(* C2: { t | R(t) and t.a op c } evaluates to exactly the tuples of R that  *)
(* satisfy a op c, with R's schema, for every relation, attribute, constant *)
(* and operator; the translation does not throw and the tree checks.        *)
C2_ComparisonSelects ==
    (Translated /\ IsQuery(astRoot) /\ IsConstComparison(Body(astRoot), "t")) =>
        /\ ~IsThrow(root)
        /\ Evaluated =>
              result = Ok(OuterRelation(astRoot).schema,
                          { row \in OuterRelation(astRoot).rows :
                              Satisfies(OuterRelation(astRoot), row, Body(astRoot)) })

\* a != comparison was evaluated and kept one row of two
C2_Witness ==
    /\ Evaluated /\ IsQuery(astRoot) /\ IsConstComparison(Body(astRoot), "t")
    /\ Body(astRoot).operator = "!="
    /\ Cardinality(OuterRelation(astRoot).rows) = 2
    /\ Cardinality(result.rows) = 1

(* C3: { t | R(t) and not t.a op c } evaluates to exactly the tuples of R   *)
(* that do not satisfy a op c: the complement within R of the un-negated    *)
(* query's result.                                                          *)
C3_NegatedComparisonComplements ==
    (Translated /\ IsQuery(astRoot) /\ Body(astRoot).type = "Negation"
        /\ IsConstComparison(Body(astRoot).formula, "t")) =>
        /\ ~IsThrow(root)
        /\ Evaluated =>
              /\ result = Ok(OuterRelation(astRoot).schema,
                             { row \in OuterRelation(astRoot).rows :
                                 ~Satisfies(OuterRelation(astRoot), row,
                                            Body(astRoot).formula) })
              /\ result.rows = OuterRelation(astRoot).rows \
                    getResult(relalgFromTRCAstRoot(
                        Query(astRoot.formula.left.relation,
                              Body(astRoot).formula)).node).rows

\* a negated <= comparison was evaluated and kept one row of two
C3_Witness ==
    /\ Evaluated /\ IsQuery(astRoot) /\ Body(astRoot).type = "Negation"
    /\ IsConstComparison(Body(astRoot).formula, "t")
    /\ Body(astRoot).formula.operator = "<="
    /\ Cardinality(OuterRelation(astRoot).rows) = 2
    /\ Cardinality(result.rows) = 1

(* C6: negation parity.  A comparison P beneath k nested Negation nodes is  *)
(* translated as its complement exactly when k is odd; in particular        *)
(* { t | R(t) and not not P } evaluates to the same relation as             *)
(* { t | R(t) and P }.                                                      *)
C6_NegationParity ==
    (Evaluated /\ IsQuery(astRoot) /\ IsConstComparison(Beneath(Body(astRoot)), "t")) =>
        result.rows =
            { row \in OuterRelation(astRoot).rows :
                Satisfies(OuterRelation(astRoot), row, Beneath(Body(astRoot)))
                    <=> (NegationDepth(Body(astRoot)) % 2 = 0) }

-----------------------------------------------------------------------------
\* the Boolean reading of a connective; implies is (not p) or q
Connective(op, p, q) ==
    CASE op = "and" -> p /\ q
      [] op = "or" -> p \/ q
      [] op = "implies" -> ~p \/ q

\* P op Q over two comparisons of attributes of v against constants
IsConnective(n, v) ==
    /\ n.type = "LogicalExpression"
    /\ IsConstComparison(n.left, v)
    /\ IsConstComparison(n.right, v)

\* the rows of rel for which P op Q is true
ConnectiveRows(rel, n) ==
    { row \in rel.rows :
        Connective(n.operator, Satisfies(rel, row, n.left), Satisfies(rel, row, n.right)) }

(* C4: { t | R(t) and (P op Q) }, op one of and, or, implies, evaluates to  *)
(* exactly the tuples of R for which the Boolean formula P op Q is true.    *)
C4_ConnectiveSelects ==
    (Translated /\ IsQuery(astRoot) /\ IsConnective(Body(astRoot), "t")) =>
        /\ ~IsThrow(root)
        /\ Evaluated =>
              result = Ok(OuterRelation(astRoot).schema,
                          ConnectiveRows(OuterRelation(astRoot), Body(astRoot)))

\* an implication was evaluated over two rows and kept exactly one of them
C4_Witness ==
    /\ Evaluated /\ IsQuery(astRoot) /\ IsConnective(Body(astRoot), "t")
    /\ Body(astRoot).operator = "implies"
    /\ Cardinality(OuterRelation(astRoot).rows) = 2
    /\ Cardinality(result.rows) = 1

\* the formula De Morgan's laws give for not (P op Q)
DeMorgan(n) ==
    CASE n.operator = "and" ->
            LogicalExpression(Negation(n.left), "or", Negation(n.right))
      [] n.operator = "or" ->
            LogicalExpression(Negation(n.left), "and", Negation(n.right))
      [] n.operator = "implies" ->
            LogicalExpression(n.left, "and", Negation(n.right))

(* C5: De Morgan.  { t | R(t) and not (P op Q) } evaluates to the same      *)
(* relation as the query with the negation pushed inward (not P or not Q,   *)
(* not P and not Q, P and not Q), which is the complement within R of the   *)
(* un-negated query's result.                                               *)
C5_DeMorgan ==
    (Translated /\ IsQuery(astRoot) /\ Body(astRoot).type = "Negation"
        /\ IsConnective(Body(astRoot).formula, "t")) =>
        /\ ~IsThrow(root)
        /\ Evaluated =>
              /\ result = getResult(relalgFromTRCAstRoot(
                              Query(astRoot.formula.left.relation,
                                    DeMorgan(Body(astRoot).formula))).node)
              /\ result = Ok(OuterRelation(astRoot).schema,
                             OuterRelation(astRoot).rows \
                                ConnectiveRows(OuterRelation(astRoot),
                                               Body(astRoot).formula))
              /\ result.rows = OuterRelation(astRoot).rows \
                    getResult(relalgFromTRCAstRoot(
                        Query(astRoot.formula.left.relation,
                              Body(astRoot).formula)).node).rows

\* a negated conjunction was evaluated over two rows and kept exactly one of them
C5_Witness ==
    /\ Evaluated /\ IsQuery(astRoot) /\ Body(astRoot).type = "Negation"
    /\ IsConnective(Body(astRoot).formula, "t")
    /\ Body(astRoot).formula.operator = "and"
    /\ Cardinality(OuterRelation(astRoot).rows) = 2
    /\ Cardinality(result.rows) = 1

-----------------------------------------------------------------------------
\* exists s (S(s) and P(s)), P a comparison of s against a constant
IsUncorrelatedExists(n) ==
    /\ n.type = "QuantifiedExpression"
    /\ n.quantifier = "exists"
    /\ n.formula.type = "LogicalExpression"
    /\ n.formula.operator = "and"
    /\ n.formula.left.type = "RelationPredicate"
    /\ n.formula.left.variable = n.variable
    /\ IsConstComparison(n.formula.right, n.variable)

\* some tuple of the quantified relation satisfies P
SomeSatisfies(n) ==
    \E row \in relations[n.formula.left.relation].rows :
        Satisfies(relations[n.formula.left.relation], row, n.formula.right)

(* C7: for an uncorrelated existential, { t | R(t) and exists s (S(s) and   *)
(* P(s)) } evaluates to all tuples of R when some tuple of S satisfies P    *)
(* and to the empty relation otherwise; the negated query evaluates to the  *)
(* empty relation when some tuple of S satisfies P and to all tuples of R   *)
(* otherwise, also when S is empty.                                         *)
C7_UncorrelatedExists ==
    (Translated /\ IsQuery(astRoot)
        /\ IsUncorrelatedExists(Beneath(Body(astRoot)))
        /\ NegationDepth(Body(astRoot)) <= 1) =>
        /\ ~IsThrow(root)
        /\ Evaluated =>
              result = Ok(OuterRelation(astRoot).schema,
                          IF SomeSatisfies(Beneath(Body(astRoot)))
                                <=> (NegationDepth(Body(astRoot)) = 0)
                          THEN OuterRelation(astRoot).rows
                          ELSE {})

\* a negated existential over an empty S returned the two rows of R
C7_Witness ==
    /\ Evaluated /\ IsQuery(astRoot)
    /\ IsUncorrelatedExists(Beneath(Body(astRoot)))
    /\ NegationDepth(Body(astRoot)) = 1
    /\ relations["S"].rows = {}
    /\ Cardinality(result.rows) = 2

-----------------------------------------------------------------------------
(* The truth of a quantifier-free formula under an assignment env of        *)
(* tuple variables to rows: env[v] = [rel |-> relation name, row |-> row].  *)

TermValue(term, env) ==
    IF term.type = "Literal" THEN term.value
    ELSE AttributeValue(relations[env[term.variable].rel], env[term.variable].row,
                        term.attribute)

RECURSIVE Holds(_, _)
Holds(n, env) ==
    CASE n.type = "Predicate" ->
            Compare(n.operator, TermValue(n.left, env), TermValue(n.right, env))
      [] n.type = "Negation" -> ~Holds(n.formula, env)
      [] n.type = "LogicalExpression" ->
            Connective(n.operator, Holds(n.left, env), Holds(n.right, env))
      [] n.type = "RelationPredicate" -> env[n.variable].rel = n.relation

\* the rows r of the outer relation with: for some / for every row s of the
\* quantified relation, body holds of (s, r)
Binding(ast, q, r, s) ==
    [v \in {ast.variable, q.variable} |->
        IF v = q.variable
        THEN [rel |-> q.formula.left.relation, row |-> s]
        ELSE [rel |-> ast.formula.left.relation, row |-> r]]

RowsWithSome(ast, q) ==
    { r \in OuterRelation(ast).rows :
        \E s \in relations[q.formula.left.relation].rows :
            Holds(q.formula.right, Binding(ast, q, r, s)) }

RowsWithEvery(ast, q) ==
    { r \in OuterRelation(ast).rows :
        \A s \in relations[q.formula.left.relation].rows :
            Holds(q.formula.right, Binding(ast, q, r, s)) }

\* Q s (S(s) op body) with a quantifier-free body
IsQuantified(n, quantifier, op) ==
    /\ n.type = "QuantifiedExpression"
    /\ n.quantifier = quantifier
    /\ n.formula.type = "LogicalExpression"
    /\ n.formula.operator = op
    /\ n.formula.left.type = "RelationPredicate"
    /\ n.formula.left.variable = n.variable

\* s.x op t.y
IsJoinComparison(n, s, t) ==
    /\ n.type = "Predicate"
    /\ n.left.variable = s
    /\ n.right.type = "AttributeReference"
    /\ n.right.variable = t

\* P and Q over comparisons against constants
IsConstConjunction(n) ==
    /\ n.type = "LogicalExpression"
    /\ n.operator = "and"
    /\ n.left.type = "Predicate" /\ n.left.right.type = "Literal"
    /\ n.right.type = "Predicate" /\ n.right.right.type = "Literal"

(* C8: { t | R(t) and exists s (S(s) and s.x op t.y) } evaluates, for any   *)
(* operator and any attributes x and y, to exactly the tuples r of R for    *)
(* which some tuple s of S satisfies s.x op r.y, with R's schema.           *)
C8_CorrelatedExists ==
    (Translated /\ IsQuery(astRoot)
        /\ IsQuantified(Body(astRoot), "exists", "and")
        /\ IsJoinComparison(Body(astRoot).formula.right, "s", "t")) =>
        /\ ~IsThrow(root)
        /\ Evaluated =>
              result = Ok(OuterRelation(astRoot).schema,
                          RowsWithSome(astRoot, Body(astRoot)))

(* C9: { t | R(t) and not exists s (S(s) and B(s,t)) } evaluates to exactly *)
(* the tuples r of R for which no tuple s of S satisfies B(s,r), when B is  *)
(* a conjunction of comparisons and when B is a single equality s.x = t.y,  *)
(* for every content of R and S.                                            *)
C9_NegatedCorrelatedExists ==
    (Translated /\ IsQuery(astRoot) /\ Body(astRoot).type = "Negation"
        /\ IsQuantified(Body(astRoot).formula, "exists", "and")
        /\ \/ IsConstConjunction(Body(astRoot).formula.formula.right)
           \/ /\ IsJoinComparison(Body(astRoot).formula.formula.right, "s", "t")
              /\ Body(astRoot).formula.formula.right.operator = "=") =>
        /\ ~IsThrow(root)
        /\ Evaluated =>
              result = Ok(OuterRelation(astRoot).schema,
                          OuterRelation(astRoot).rows \
                              RowsWithSome(astRoot, Body(astRoot).formula))

(* C10: { r | R(r) and forall s (S(s) implies s.x op r.y) } evaluates to    *)
(* exactly the tuples r of R for which every tuple s of S satisfies         *)
(* s.x op r.y, not to those for which merely some s does.                   *)
C10_CorrelatedForAll ==
    (Translated /\ IsQuery(astRoot)
        /\ IsQuantified(Body(astRoot), "forAll", "implies")
        /\ IsJoinComparison(Body(astRoot).formula.right, "s", "t")) =>
        /\ ~IsThrow(root)
        /\ Evaluated =>
              result = Ok(OuterRelation(astRoot).schema,
                          RowsWithEvery(astRoot, Body(astRoot)))

(* C11: { r | R(r) and not forall s (S(s) implies s.x op r.y) } evaluates  *)
(* to exactly the tuples r of R for which at least one tuple s of S         *)
(* violates s.x op r.y: the complement within R of the tuples for which     *)
(* every s satisfies the comparison.                                        *)
C11_NegatedCorrelatedForAll ==
    (Translated /\ IsQuery(astRoot) /\ Body(astRoot).type = "Negation"
        /\ IsQuantified(Body(astRoot).formula, "forAll", "implies")
        /\ IsJoinComparison(Body(astRoot).formula.formula.right, "s", "t")) =>
        /\ ~IsThrow(root)
        /\ Evaluated =>
              result = Ok(OuterRelation(astRoot).schema,
                          OuterRelation(astRoot).rows \
                              RowsWithEvery(astRoot, Body(astRoot).formula))

\* forall s (S(s) and P(s)), P a comparison of s against a constant
IsUncorrelatedForAll(n) ==
    /\ IsQuantified(n, "forAll", "and")
    /\ IsConstComparison(n.formula.right, n.variable)

\* every tuple of the quantified relation satisfies P
EverySatisfies(n) ==
    \A row \in relations[n.formula.left.relation].rows :
        Satisfies(relations[n.formula.left.relation], row, n.formula.right)

(* C12: for an uncorrelated universal quantifier, { t | R(t) and forall s   *)
(* (S(s) and P(s)) } evaluates to all tuples of R when every tuple of S     *)
(* satisfies P and to the empty relation when some tuple violates P; the    *)
(* negated query evaluates to all tuples of R when some tuple of S violates *)
(* P and to the empty relation when every tuple satisfies P.                *)
C12_UncorrelatedForAll ==
    (Translated /\ IsQuery(astRoot)
        /\ IsUncorrelatedForAll(Beneath(Body(astRoot)))
        /\ NegationDepth(Body(astRoot)) <= 1) =>
        /\ ~IsThrow(root)
        /\ Evaluated =>
              result = Ok(OuterRelation(astRoot).schema,
                          IF EverySatisfies(Beneath(Body(astRoot)))
                                <=> (NegationDepth(Body(astRoot)) = 0)
                          THEN OuterRelation(astRoot).rows
                          ELSE {})

\* a universal quantifier over two rows of S, one of which violates P, returned
\* no row of a two-row R
C12_Witness ==
    /\ Evaluated /\ IsQuery(astRoot)
    /\ IsUncorrelatedForAll(Body(astRoot))
    /\ Cardinality(relations["S"].rows) = 2
    /\ ~EverySatisfies(Body(astRoot))
    /\ SomeSatisfies(Body(astRoot))
    /\ Cardinality(OuterRelation(astRoot).rows) = 2
    /\ result.rows = {}

\* the formula with every forall v F replaced by not exists v not F
RECURSIVE Dual(_)
Dual(n) ==
    CASE n.type = "TRC_Expr" -> [n EXCEPT !.formula = Dual(n.formula)]
      [] n.type = "Negation" -> [n EXCEPT !.formula = Dual(n.formula)]
      [] n.type = "LogicalExpression" ->
            [n EXCEPT !.left = Dual(n.left), !.right = Dual(n.right)]
      [] n.type = "QuantifiedExpression" ->
            IF n.quantifier = "forAll"
            THEN Negation(QuantifiedExpression("exists", n.variable,
                                               Negation(Dual(n.formula))))
            ELSE [n EXCEPT !.formula = Dual(n.formula)]
      [] OTHER -> n

(* C13: forall/exists duality.  The tree translated from a query containing *)
(* forall v F evaluates to the same relation as the tree translated from    *)
(* the query with forall v F replaced by not exists v not F, whether or not *)
(* F mentions the outer tuple variable.                                     *)
C13_ForAllExistsDuality ==
    (Evaluated /\ IsQuery(astRoot)
        /\ Beneath(Body(astRoot)).type = "QuantifiedExpression"
        /\ Beneath(Body(astRoot)).quantifier = "forAll") =>
        result = getResult(relalgFromTRCAstRoot(Dual(astRoot)).node)

\* the formula with every p implies q between comparisons replaced by (not p) or q
RECURSIVE ImplicationRewritten(_)
ImplicationRewritten(n) ==
    CASE n.type = "TRC_Expr" -> [n EXCEPT !.formula = ImplicationRewritten(n.formula)]
      [] n.type = "Negation" -> [n EXCEPT !.formula = ImplicationRewritten(n.formula)]
      [] n.type = "QuantifiedExpression" ->
            [n EXCEPT !.formula = ImplicationRewritten(n.formula)]
      [] n.type = "LogicalExpression" ->
            IF n.operator = "implies" /\ n.left.type # "RelationPredicate"
            THEN LogicalExpression(Negation(ImplicationRewritten(n.left)), "or",
                                   ImplicationRewritten(n.right))
            ELSE [n EXCEPT !.left = ImplicationRewritten(n.left),
                           !.right = ImplicationRewritten(n.right)]
      [] OTHER -> n

(* C14: implication rewrite.  In every context, also beneath a negation or  *)
(* inside a negated quantifier body where the pending negation is set, the  *)
(* tree translated from p implies q evaluates to the same relation as the   *)
(* tree translated from (not p) or q in that context.                       *)
C14_ImplicationRewrite ==
    (Evaluated /\ ImplicationRewritten(astRoot) # astRoot) =>
        result = getResult(relalgFromTRCAstRoot(ImplicationRewritten(astRoot)).node)

\* the relation the query's outer variable is bound to
OuterBinding(ast) == MapGet(setupReferences(ast, OnEntry), ast.variable)

\* the schema the query is to return: the outer relation's, or the listed
\* attributes in order, each qualified by the outer relation
ExpectedSchema(ast) ==
    IF Len(ast.projections) = 0
    THEN SchemaOf(OuterBinding(ast))
    ELSE [i \in 1 .. Len(ast.projections) |->
            CHOOSE c \in { SchemaOf(OuterBinding(ast))[k] :
                             k \in 1 .. Len(SchemaOf(OuterBinding(ast))) } :
                c.name = ast.projections[i]]

\* the rows of rel restricted to the listed attributes, in order
ProjectedRows(rel, projections) ==
    IF Len(projections) = 0 THEN rel.rows
    ELSE { [i \in 1 .. Len(projections) |-> AttributeValue(rel, row, projections[i])] :
             row \in rel.rows }

(* C15: schema preservation.  For every query whose outer variable t is    *)
(* bound to R the result schema is R's schema when the projection list is   *)
(* empty and otherwise the listed attributes, in order, qualified by R,     *)
(* also when the first relation predicate of the formula binds another      *)
(* variable or the formula does not start with a relation predicate; and    *)
(* { t | R(t) } evaluates to R, { t.a, t.b | R(t) } to pi a, b (R).          *)
C15_SchemaPreservation ==
    /\ Translated => ~IsThrow(root)
    /\ Evaluated =>
          /\ result.error = "none"
          /\ result.schema = ExpectedSchema(astRoot)
          /\ astRoot.formula.type = "RelationPredicate" =>
                result.rows = ProjectedRows(relations[OuterBinding(astRoot)],
                                            astRoot.projections)

\* the variables the relation predicates of a formula bind
RECURSIVE BoundVariables(_)
BoundVariables(n) ==
    CASE n.type = "RelationPredicate" -> {n.variable}
      [] n.type \in {"TRC_Expr", "Negation", "QuantifiedExpression"} ->
            BoundVariables(n.formula)
      [] n.type = "LogicalExpression" -> BoundVariables(n.left) \cup BoundVariables(n.right)
      [] OTHER -> {}

\* the variables the comparisons of a formula use
RECURSIVE ComparedVariables(_)
ComparedVariables(n) ==
    CASE n.type = "Predicate" ->
            {n.left.variable} \cup
                (IF n.right.type = "AttributeReference" THEN {n.right.variable} ELSE {})
      [] n.type \in {"TRC_Expr", "Negation", "QuantifiedExpression"} ->
            ComparedVariables(n.formula)
      [] n.type = "LogicalExpression" ->
            ComparedVariables(n.left) \cup ComparedVariables(n.right)
      [] OTHER -> {}

NamesAbsentRelation(ast) == NamedRelations(ast) \ DOMAIN relations # {}

UsesUnboundVariable(ast) == ComparedVariables(ast) \ BoundVariables(ast) # {}

(* C16: relalgFromTRCAstRoot throws, returning no tree, whenever a relation *)
(* predicate names a relation absent from the catalog and whenever a        *)
(* comparison uses, on its left or right side, a tuple variable that no     *)
(* relation predicate of the query binds.                                   *)
C16_FailsOnUnknownNames ==
    (Translated /\ (NamesAbsentRelation(astRoot) \/ UsesUnboundVariable(astRoot))) =>
        IsThrow(root)

\* the (variable, relation) pairs the relation predicates of a formula record
RECURSIVE Bindings(_)
Bindings(n) ==
    CASE n.type = "RelationPredicate" -> { << n.variable, n.relation >> }
      [] n.type \in {"TRC_Expr", "Negation", "QuantifiedExpression"} -> Bindings(n.formula)
      [] n.type = "LogicalExpression" -> Bindings(n.left) \cup Bindings(n.right)
      [] OTHER -> {}

\* some variable is bound to two different relations
BindsTwice(ast) ==
    \E x \in Bindings(ast), y \in Bindings(ast) : x[1] = y[1] /\ x[2] # y[2]

\* some (variable, relation) pair is recorded by more than one relation predicate
RECURSIVE BindingCount(_)
BindingCount(n) ==
    CASE n.type = "RelationPredicate" -> 1
      [] n.type \in {"TRC_Expr", "Negation", "QuantifiedExpression"} ->
            BindingCount(n.formula)
      [] n.type = "LogicalExpression" -> BindingCount(n.left) + BindingCount(n.right)
      [] OTHER -> 0

(* C17: the reference environment is write-once per tuple variable.         *)
(* Recording the same (variable, relation) pair again leaves it unchanged,  *)
(* and a query that binds one variable to two different relations, as in    *)
(* R(t) and S(t), makes the translation fail with an error instead of       *)
(* keeping the last binding.                                                *)
C17_ReferencesWriteOnce ==
    Translated =>
        IF BindsTwice(astRoot)
        THEN IsThrow(root)
        ELSE /\ ~IsThrow(root)
             /\ references = [v \in { x[1] : x \in Bindings(astRoot) } |->
                                 CHOOSE r \in RelationNames : << v, r >> \in Bindings(astRoot)]

-----------------------------------------------------------------------------
(* C18: catalog isolation.  In the three translators every relation leaf of *)
(* the returned tree is a new object, a copy of the catalog relation it     *)
(* names and never the catalog's own object, and no two leaves are one      *)
(* object; translation leaves the catalog as it was; and a change made to a *)
(* catalog relation after translate has returned leaves the tree as it was. *)

\* the relation leaves of a tree, left to right
RECURSIVE Leaves(_)
Leaves(node) ==
    CASE node.op = "Relation" -> << node >>
      [] Has(node, "child2") -> Leaves(node.child) \o Leaves(node.child2)
      [] Has(node, "child") -> Leaves(node.child)
      [] OTHER -> << >>

CatalogObjects == { relations[n].object : n \in DOMAIN relations }

\* the leaves that name a catalog relation: every leaf but an inline table's
IsInlineTable(leaf) ==
    /\ astRoot.type = "relalgRoot"
    /\ Has(leaf, "codeInfo")
    /\ leaf.codeInfo = "c3"

LeavesFresh ==
    LET leaves == Leaves(root) IN
    /\ \A i \in 1 .. Len(leaves) : leaves[i].object \notin CatalogObjects
    /\ \A i, j \in 1 .. Len(leaves) : i # j => leaves[i].object # leaves[j].object
    /\ pc = "translated" =>
          \A i \in 1 .. Len(leaves) :
              IsInlineTable(leaves[i])
              \/ /\ leaves[i].schema = relations[leaves[i].name].schema
                 /\ leaves[i].rows = relations[leaves[i].name].rows

C18_CatalogIsolation ==
    /\ [](Translated => LeavesFresh)
    /\ [][/\ pc = "start" => relations' = relations
          /\ pc = "translated" /\ pc' = "mutated" => root' = root]_vars

\* a tree with two leaves copied from one catalog relation, which has been
\* changed since
C18_Witness ==
    /\ pc = "mutated"
    /\ LET leaves == Leaves(root) IN
       \E i, j \in 1 .. Len(leaves) :
           /\ i # j
           /\ leaves[i].name = leaves[j].name
           /\ ~IsInlineTable(leaves[i])
           /\ ~IsInlineTable(leaves[j])
           /\ leaves[i].rows # relations[leaves[i].name].rows

-----------------------------------------------------------------------------
(* C19: the code-region tag is optional on every AST node and, when         *)
(* present, is copied onto the RA nodes derived from that node: every       *)
(* Selection, join, Union, SemiJoin and Projection the TRC translator emits *)
(* carries a tag of the TRC AST, and the SQL translator translates a node   *)
(* without codeInfo without error.                                          *)

\* the nodes of a tree
RECURSIVE Nodes(_)
Nodes(node) ==
    {node} \cup (IF Has(node, "child") THEN Nodes(node.child) ELSE {})
           \cup (IF Has(node, "child2") THEN Nodes(node.child2) ELSE {})

EmittedOperators ==
    {"Selection", "InnerJoin", "CrossJoin", "AntiJoin", "Union", "SemiJoin", "Projection"}

CarriesCodeInfo(node) == Has(node, "codeInfo") /\ node.codeInfo \in CodeInfos

C19_CodeInfoCopied ==
    Translated =>
        /\ (astRoot.type = "TRC_Expr" /\ Has(astRoot, "codeInfo") /\ ~IsThrow(root)) =>
              \A node \in Nodes(root) :
                  node.op \in EmittedOperators => CarriesCodeInfo(node)
        /\ astRoot.type = "sqlRoot" => ~IsThrow(root)

-----------------------------------------------------------------------------
(* C20: SQL LIMIT n OFFSET k is lowered to a Selection over the child whose *)
(* condition is (rownum > k) and (rownum <= n + k) when n is not -1, and    *)
(* rownum > k alone when n = -1; over an input of N rows numbered 1 .. N    *)
(* the rows selected are exactly those numbered k + 1 .. min(N, n + k):     *)
(* none when n = 0 or k >= N.                                               *)

IsLimit(ast) == ast.type = "sqlRoot" /\ ast.child.type = "limit"

RownumAbove(k) ==
    ValueExprGeneric("boolean", ">",
        << ValueExprGeneric("number", "rownum", << >>),
           ValueExprGeneric("number", "constant", << k >>) >>)

RownumUpTo(m) ==
    ValueExprGeneric("boolean", "<=",
        << ValueExprGeneric("number", "rownum", << >>),
           ValueExprGeneric("number", "constant", << m >>) >>)

LoweredCondition(n, k) ==
    IF n = -1 THEN RownumAbove(k)
    ELSE ValueExprGeneric("boolean", "and", << RownumAbove(k), RownumUpTo(n + k) >>)

Min(x, y) == IF x <= y THEN x ELSE y

\* the numbers of the rows LIMIT n OFFSET k keeps of N rows
KeptNumbers(n, k, N) == (k + 1) .. (IF n = -1 THEN N ELSE Min(N, n + k))

C20_LimitLowering ==
    (Translated /\ IsLimit(astRoot)) =>
        LET n == astRoot.child.limit
            k == astRoot.child.offset
            input == relations[astRoot.child.child.name].rows
            N == Cardinality(input)
        IN  /\ root.op = "Selection"
            /\ root.condition = LoweredCondition(n, k)
            /\ root.child.op = "Relation"
            /\ root.child.rows = input
            /\ Evaluated =>
                  /\ result.error = "none"
                  /\ result.rows =
                        { row \in input : rownum(input, row) \in KeptNumbers(n, k, N) }
                  /\ (n = 0 \/ k >= N) => result.rows = {}

\* a limit and an offset that keep some rows of the input and drop others
C20_Witness ==
    /\ Evaluated
    /\ IsLimit(astRoot)
    /\ astRoot.child.offset > 0
    /\ astRoot.child.limit > 0
    /\ result.rows # {}
    /\ result.rows # relations[astRoot.child.child.name].rows

-----------------------------------------------------------------------------
(* C27: notOperator is a complementing involution on the six comparison     *)
(* operators: notOperator(notOperator(op)) = op, and over a totally ordered *)
(* domain x notOperator(op) y holds exactly when x op y does not; the       *)
(* operator emitted for a negated comparison is notOperator of the          *)
(* operator written.                                                        *)

OrderedDomain == -1 .. (MaxVal + 1)

IsNegatedComparison(ast) ==
    /\ ast.type = "TRC_Expr"
    /\ IsQuery(ast)
    /\ Body(ast).type = "Negation"
    /\ IsConstComparison(Body(ast).formula, "t")

C27_NotOperatorInvolution ==
    /\ \A op \in Operators :
          /\ notOperator(op) \in Operators
          /\ notOperator(notOperator(op)) = op
          /\ \A x, y \in OrderedDomain :
                Compare(notOperator(op), x, y) <=> ~Compare(op, x, y)
    /\ (Translated /\ IsNegatedComparison(astRoot) /\ ~IsThrow(root)) =>
          /\ root.child2.op = "Selection"
          /\ root.child2.condition.func = notOperator(Body(astRoot).formula.operator)
          /\ notOperator(root.child2.condition.func) = Body(astRoot).formula.operator

\* a negated < was translated to a selection on >=
C27_Witness ==
    /\ Translated
    /\ IsNegatedComparison(astRoot)
    /\ Body(astRoot).formula.operator = "<"
    /\ root.child2.condition.func = ">="

-----------------------------------------------------------------------------
(* C21: schema compatibility by construction.  In every tree the TRC        *)
(* translator returns the two children of each Union node have identical    *)
(* schemas, and the subtree produced for an uncorrelated existential has    *)
(* exactly the schema of the outer relation, with no extra column such as   *)
(* an aggregate count, as in                                                *)
(* { t | R(t) and (t.a > 0 or exists s (S(s) and s.d > 0)) }.               *)

\* the subtree of an uncorrelated existential: sigma count op 0 (rel x gamma count(*))
IsCountGate(node) ==
    /\ node.op = "Selection"
    /\ node.child.op = "CrossJoin"
    /\ node.child.child2.op = "GroupBy"

C21_SchemaCompatibility ==
    (Translated /\ astRoot.type = "TRC_Expr" /\ ~IsThrow(root)) =>
        \A node \in Nodes(root) :
            /\ node.op = "Union" =>
                  getResult(node.child).schema = getResult(node.child2).schema
            /\ IsCountGate(node) =>
                  getResult(node).schema = OuterRelation(astRoot).schema

-----------------------------------------------------------------------------
(* C22: the outer tuple variable the recursion sees is set on descending    *)
(* into the root TRC_Expr and is the same for every node below it.  Inside  *)
(* exists s (... exists u (...)) the inner quantifier is treated as         *)
(* correlated exactly when its formula mentions the root variable t, and    *)
(* the relation that is gated is the relation of t, not that of s.          *)

IsNestedExists(ast) ==
    /\ ast.type = "TRC_Expr"
    /\ IsQuery(ast)
    /\ Body(ast).type = "QuantifiedExpression"
    /\ Body(ast).formula.type = "LogicalExpression"
    /\ Body(ast).formula.right.type = "QuantifiedExpression"

InnerQuantifier(ast) == Body(ast).formula.right

\* the subtree translated from the inner quantifier: the right child of the
\* semi-join built for S(s) and exists u (...), which is the outer
\* quantifier's subtree or lies beneath the outer quantifier's count gate
InnerTree(node) ==
    IF IsCountGate(node.child2)
    THEN node.child2.child.child2.child.child2
    ELSE node.child2.child2

C22_OuterVariableFixed ==
    (Translated /\ IsNestedExists(astRoot) /\ ~IsThrow(root)) =>
        /\ usesVariableInPredicate(InnerQuantifier(astRoot).formula, astRoot.variable)
              <=> ~IsCountGate(InnerTree(root))
        /\ IsCountGate(InnerTree(root)) =>
              InnerTree(root).child.child.name = OuterRelation(astRoot).name

-----------------------------------------------------------------------------
(* C24: a comparison acts as a join only when its two sides reference two   *)
(* different tuple variables.  A comparison whose two sides reference the   *)
(* same tuple variable, as in { t | R(t) and t.x op t.y }, acts as a        *)
(* selection on that variable's relation: the query evaluates to the        *)
(* tuples of R with x op y, not to a theta self-join of R with R.           *)

IsSelfComparison(ast) ==
    /\ ast.type = "TRC_Expr"
    /\ IsQuery(ast)
    /\ Body(ast).type = "Predicate"
    /\ Body(ast).right.type = "AttributeReference"
    /\ Body(ast).right.variable = Body(ast).left.variable

C24_SameVariableSelects ==
    (Translated /\ IsSelfComparison(astRoot)) =>
        /\ ~IsThrow(root)
        /\ \A node \in Nodes(root) : node.op # "InnerJoin"
        /\ Evaluated =>
              result = Ok(OuterRelation(astRoot).schema,
                          { row \in OuterRelation(astRoot).rows :
                              Compare(Body(astRoot).operator,
                                  AttributeValue(OuterRelation(astRoot), row,
                                                 Body(astRoot).left.attribute),
                                  AttributeValue(OuterRelation(astRoot), row,
                                                 Body(astRoot).right.attribute)) })

-----------------------------------------------------------------------------
(* C25: safety of the outer conjunction.  For every query                   *)
(* { t | R(t) and F } without projections, whatever F is, the returned tree *)
(* is a left SemiJoin whose left child is a copy of R, so the evaluated     *)
(* result has R's schema and is a subset of R's tuples: no tuple outside R  *)
(* and no column of another relation appears in it.                         *)

C25_OuterConjunctionSafe ==
    (Translated /\ astRoot.type = "TRC_Expr" /\ IsQuery(astRoot) /\ ~IsThrow(root)) =>
        /\ root.op = "SemiJoin"
        /\ root.isLeft
        /\ root.child.op = "Relation"
        /\ root.child.name = OuterRelation(astRoot).name
        /\ root.child.schema = OuterRelation(astRoot).schema
        /\ root.child.rows = OuterRelation(astRoot).rows
        /\ (Evaluated /\ result.error = "none") =>
              /\ result.schema = OuterRelation(astRoot).schema
              /\ result.rows \subseteq OuterRelation(astRoot).rows

\* a query with a quantifier whose result keeps some tuples of R and drops others
C25_Witness ==
    /\ Evaluated
    /\ IsQuery(astRoot)
    /\ Beneath(Body(astRoot)).type = "QuantifiedExpression"
    /\ result.error = "none"
    /\ result.rows # {}
    /\ result.rows # OuterRelation(astRoot).rows

-----------------------------------------------------------------------------
(* C26: relalgFromTRCAstRoot leaves its input AST unchanged.  After any     *)
(* call, successful or failing, every AST node has the operator,            *)
(* quantifier, children and projections it had before: the operator flip of *)
(* a negated comparison and the forall-to-exists rewrite are applied to     *)
(* copies.  Translating the same AST twice against the same catalog yields  *)
(* structurally identical trees.                                            *)

\* a tree without the identities of its Relation objects
RECURSIVE Structure(_)
Structure(node) ==
    [f \in DOMAIN node \ {"object"} |->
        IF f \in {"child", "child2"} THEN Structure(node[f]) ELSE node[f]]

C26_InputUnchanged ==
    [][/\ astRoot' = astRoot
       /\ pc' = "retranslated" => Structure(root') = Structure(root)]_vars

\* a negated < comparison, or a forall, was translated a second time
C26_Witness ==
    /\ pc = "retranslated"
    /\ ~IsThrow(root)
    /\ \/ /\ IsNegatedComparison(astRoot)
          /\ root.child2.condition.func = notOperator(Body(astRoot).formula.operator)
          /\ Body(astRoot).formula.operator = "<"
       \/ /\ Body(astRoot).type = "QuantifiedExpression"
          /\ Body(astRoot).quantifier = "forAll"

-----------------------------------------------------------------------------
(* Well-formed queries: every tuple variable a comparison uses is bound by  *)
(* a relation predicate that names a catalog relation, and no Negation      *)
(* wraps a bare relation predicate.                                         *)

RECURSIVE UsedVariables(_)
UsedVariables(n) ==
    CASE n.type = "TRC_Expr" -> {n.variable} \cup UsedVariables(n.formula)
      [] n.type = "Predicate" ->
            {n.left.variable} \cup
                (IF n.right.type = "AttributeReference" THEN {n.right.variable} ELSE {})
      [] n.type = "Negation" -> UsedVariables(n.formula)
      [] n.type = "QuantifiedExpression" -> {n.variable} \cup UsedVariables(n.formula)
      [] n.type = "LogicalExpression" -> UsedVariables(n.left) \cup UsedVariables(n.right)
      [] OTHER -> {}

RECURSIVE NegatesRelationPredicate(_)
NegatesRelationPredicate(n) ==
    CASE n.type = "TRC_Expr" -> NegatesRelationPredicate(n.formula)
      [] n.type = "Negation" ->
            n.formula.type = "RelationPredicate" \/ NegatesRelationPredicate(n.formula)
      [] n.type = "QuantifiedExpression" -> NegatesRelationPredicate(n.formula)
      [] n.type = "LogicalExpression" ->
            NegatesRelationPredicate(n.left) \/ NegatesRelationPredicate(n.right)
      [] OTHER -> FALSE

WellFormed(ast) ==
    LET refs == setupReferences(ast, OnEntry) IN
    /\ ast.type = "TRC_Expr"
    /\ \A v \in UsedVariables(ast) : MapGet(refs, v) \in DOMAIN relations
    /\ ~NegatesRelationPredicate(ast)

-----------------------------------------------------------------------------
(* C23: a bare relation predicate is never translated under negation.       *)
(* Whenever the recursion reaches a RelationPredicate while a negation is   *)
(* pending (negated = true), or a Negation node directly wraps a            *)
(* RelationPredicate, the translation fails rather than return the          *)
(* un-negated copy of the relation.                                         *)

\* some call rec(n, _, true) made while translating nRaw has a
\* RelationPredicate for n: the calls are those of rec, case by case
RECURSIVE ReachedNegated(_, _, _)
ReachedNegated(nRaw, tupleVariable, negated) ==
    CASE nRaw.type = "TRC_Expr" -> ReachedNegated(nRaw.formula, nRaw.variable, FALSE)
      [] nRaw.type = "RelationPredicate" -> negated
      [] nRaw.type = "LogicalExpression" ->
            IF nRaw.operator = "implies"
            THEN IF nRaw.left.type = "RelationPredicate"
                 THEN ReachedNegated(nRaw.right, tupleVariable, negated)
                 ELSE \/ ReachedNegated(nRaw.right, tupleVariable, FALSE)
                      \/ ReachedNegated(Negation(nRaw.left), tupleVariable, negated)
            ELSE \/ ReachedNegated(nRaw.left, tupleVariable, negated)
                 \/ ReachedNegated(nRaw.right, tupleVariable, negated)
      [] nRaw.type = "QuantifiedExpression" ->
            \/ ReachedNegated(nRaw.formula, nRaw.variable, FALSE)
            \/ IF nRaw.quantifier = "exists"
               THEN /\ usesVariableInPredicate(nRaw.formula, tupleVariable)
                    /\ ReachedNegated(nRaw.formula, nRaw.variable, negated)
               ELSE LET uses == usesVariableInPredicate(nRaw.formula, tupleVariable)
                        notFormula == IF usesVariableInPredicate(nRaw, tupleVariable)
                                      THEN nRaw.formula
                                      ELSE Negation(nRaw.formula)
                    IN  ReachedNegated(
                            [nRaw EXCEPT !.quantifier = "exists", !.formula = notFormula],
                            tupleVariable, IF negated THEN uses ELSE ~uses)
      [] nRaw.type = "Negation" ->
            LET f == nRaw.formula IN
            CASE f.type = "Negation" -> ReachedNegated(f, tupleVariable, FALSE)
              [] f.type = "QuantifiedExpression" -> ReachedNegated(f, tupleVariable, TRUE)
              [] f.type = "LogicalExpression" ->
                    IF f.left.type = "RelationPredicate"
                    THEN ReachedNegated(IF f.operator = "and" THEN f.right
                                        ELSE Negation(f.right), tupleVariable, TRUE)
                    ELSE IF f.operator = "implies"
                    THEN ReachedNegated(
                             LogicalExpression(f.left, "and", Negation(f.right)),
                             tupleVariable, FALSE)
                    ELSE ReachedNegated(
                             LogicalExpression(Negation(f.left),
                                 IF f.operator = "and" THEN "or" ELSE "and",
                                 Negation(f.right)),
                             tupleVariable, TRUE)
              [] OTHER -> FALSE
      [] OTHER -> FALSE

C23_NoNegatedRelationPredicate ==
    (Translated /\ astRoot.type = "TRC_Expr"
        /\ (ReachedNegated(astRoot, NULL, FALSE) \/ NegatesRelationPredicate(astRoot))) =>
        IsThrow(root)

-----------------------------------------------------------------------------
(* C1: relalgFromTRCAstRoot returns an RA tree, neither throwing nor        *)
(* returning undefined, for every well-formed query of the supported node   *)
(* shapes, negated existentials whose body's right operand is a Negation or *)
(* a QuantifiedExpression included.                                         *)
C1_TranslationTotal ==
    (Translated /\ WellFormed(astRoot)) => (~IsThrow(root) /\ root.op # "undefined")

=============================================================================
